---- MODULE Spec2Model ----
(***************************************************************************)
(* State-machine model of the ComfyUI-ChomfyNodes prompt nodes:            *)
(*   AutoPromptLineLoader    (nodes/auto_prompt_line.py)      "Sequencer"  *)
(*   SimpleNumberCounter     (nodes/simple_number_counter.py) "Counter"    *)
(*   WildcardPromptAssembler (nodes/wildcard_prompt_assembler.py)          *)
(*                                                            "Composer"   *)
(* A text is a sequence of one-character strings, so that str.strip() is   *)
(* computed and not assumed.  A file is a modification time and a sequence *)
(* of lines.  Every node entrypoint is one action; a raised exception is a *)
(* call that returns status "error" and keeps whatever the code had        *)
(* already written before raising.                                         *)
(***************************************************************************)
EXTENDS Integers, Sequences, FiniteSets, TLC

VARIABLES
    node,     \* class of the node instance this behaviour drives
    fs,       \* the file system: path -> [mtime, content]
    clock,    \* source of modification times
    seq,      \* AutoPromptLineLoader._state
    seqOut,   \* what the last next_prompt call returned / raised
    seqHist,  \* observer: calls and emissions seen since the last reset
    cnt,      \* SimpleNumberCounter._state
    cntOut,   \* what the last count call returned
    cntHist,  \* observer: emissions seen since the last reset
    comp,     \* WildcardPromptAssembler: _cache, _positions, _global_step
    compOut,  \* what the last compose call returned / raised
    compHist, \* observer: calls and selections seen since the last reset
    rngLog,   \* observer: the seeds the seeded calls gave their generator
    pll,      \* PromptLineLoader: the attributes of the instance (none)
    pllOut,   \* what the last load_line call returned / raised
    pllKept   \* observer: at most one earlier load_line call

vars == <<node, fs, clock, seq, seqOut, seqHist, cnt, cntOut, cntHist,
          comp, compOut, compHist, rngLog, pll, pllOut, pllKept>>

seqVars == <<seq, seqOut, seqHist>>
cntVars == <<cnt, cntOut, cntHist>>
compVars == <<comp, compOut, compHist, rngLog>>
pllVars == <<pll, pllOut, pllKept>>

(***************************************************************************)
(* Bounds of the model.                                                    *)
(***************************************************************************)
MaxClock == 1     \* number of file writes in a behaviour
MaxEmit == 3      \* cap on emitted_steps (an endless run is cut here)
FloatBits == 3    \* significand width of the model's binary floating point

Abs(x) == IF x < 0 THEN -x ELSE x

(***************************************************************************)
(* Texts.                                                                  *)
(***************************************************************************)
RECURSIVE lstrip(_)
lstrip(s) ==
    IF s # <<>> /\ Head(s) = " " THEN lstrip(Tail(s)) ELSE s

RECURSIVE rstrip(_)
rstrip(s) ==
    IF s # <<>> /\ s[Len(s)] = " " THEN rstrip(SubSeq(s, 1, Len(s) - 1)) ELSE s

\* str.strip()
str_strip(s) == rstrip(lstrip(s))

Line_a == <<" ", "a">>
Line_b == <<"b">>
Line_sp == <<" ">>
Line_c == <<"c", " ">>

\* the contents a file may be given
Contents == { <<>>, <<Line_a, Line_b>>, <<Line_b, Line_sp, Line_c>> }

DiskPaths == {"d/a.txt", "d/b.txt", "d/c.bin", "m/list.txt"}

\* the files that are rewritten while the nodes run
WrittenPaths == {"d/a.txt"}

os_path_isfile(path) == path \in DOMAIN fs

os_path_getmtime(path) == fs[path].mtime

\* os.path.splitext(path)[1].lower() for the paths of the model
path_ext(path) ==
    CASE path \in {"d/a.txt", "d/b.txt", "d/missing.txt", "m/list.txt"} -> ".txt"
      [] path = "d/c.bin" -> ".bin"
      [] OTHER -> ""

(***************************************************************************)
(* AutoPromptLineLoader (the Sequencer).                                   *)
(***************************************************************************)
StartValues == {-1, 2}
Steps == {-2, 0, 1}
MaxStepsValues == {-1, 0, 2}
CsvColumns == {"", "c"}
SeqPaths == {"", "d/a.txt", "d/b.txt", "d/missing.txt"}

\* The calls the host makes: every combination of the sequencing inputs on
\* the default file, and every combination of the file inputs for one
\* setting of the sequencing inputs.
SeqArgs ==
    [file_path : {"d/a.txt"}, start_value : StartValues, step : Steps,
     max_steps : MaxStepsValues, auto_reset : BOOLEAN, reset : BOOLEAN,
     csv_column : {""}, strip_whitespace : {TRUE}]
    \cup
    [file_path : SeqPaths, start_value : {2}, step : {-2},
     max_steps : {2}, auto_reset : BOOLEAN, reset : {FALSE},
     csv_column : CsvColumns, strip_whitespace : BOOLEAN]

APL_init ==
    [initialized |-> FALSE, file_path |-> "", file_mtime |-> -1,
     csv_column |-> "", strip_whitespace |-> TRUE, start_value |-> 1,
     step |-> 1, max_steps |-> -1, auto_reset |-> FALSE, lines |-> <<>>,
     total_lines |-> 0, next_index |-> 1, emitted_steps |-> 0,
     last_prompt |-> <<>>, last_line_index |-> 0, last_step_index |-> 0]

NoSeqArgs ==
    [file_path |-> "", start_value |-> 1, step |-> 1, max_steps |-> -1,
     auto_reset |-> FALSE, reset |-> FALSE, csv_column |-> "",
     strip_whitespace |-> TRUE]

\* the result of a call that raised
SeqRaise(err) ==
    [status |-> "error", error |-> err, prompt |-> <<>>, line_index |-> 0,
     step_index |-> 0, total_lines |-> 0, done |-> FALSE, held |-> FALSE,
     args |-> NoSeqArgs, reset_entry |-> FALSE, reset_auto |-> FALSE]

\* the result of a call that returned
SeqReturn(prompt, index, step_index, total, done, held, a, re, ra) ==
    [status |-> "ok", error |-> "", prompt |-> prompt, line_index |-> index,
     step_index |-> step_index, total_lines |-> total, done |-> done,
     held |-> held, args |-> a, reset_entry |-> re, reset_auto |-> ra]

\* a variant: the remainder taken of the magnitude, as a truncating % would invite
APL_normalize_index_abs(index, total) == (Abs(index - 1) % total) + 1

\* total = 0 raises ValueError in the code; the caller tests for it
APL_normalize_index(index, total) == ((index - 1) % total) + 1

APL_read_txt(path) == fs[path].content

\* only text files are on the model's disk: the .md, .csv and .docx readers
\* are not reached
APL_load_lines(path, csv_column) ==
    LET ext == path_ext(path)
    IN  IF ext \in {".txt", ".log"}
        THEN [ok |-> TRUE, lines |-> APL_read_txt(path)]
        ELSE [ok |-> FALSE, lines |-> <<>>]

\* a variant: strip_whitespace left out of the fingerprint comparison
APL_should_reset_no_strip(st, path, file_mtime, a) ==
    IF a.reset \/ ~st.initialized
    THEN TRUE
    ELSE \/ st.file_path # path
         \/ st.file_mtime # file_mtime
         \/ st.start_value # a.start_value
         \/ st.step # a.step
         \/ st.max_steps # a.max_steps
         \/ st.auto_reset # a.auto_reset
         \/ st.csv_column # a.csv_column

APL_should_reset(st, path, file_mtime, a) ==
    IF a.reset \/ ~st.initialized
    THEN TRUE
    ELSE \/ st.file_path # path
         \/ st.file_mtime # file_mtime
         \/ st.start_value # a.start_value
         \/ st.step # a.step
         \/ st.max_steps # a.max_steps
         \/ st.auto_reset # a.auto_reset
         \/ st.csv_column # a.csv_column
         \/ st.strip_whitespace # a.strip_whitespace

\* a variant: the state is updated before the loaded lines are counted
APL_reset_state_store_first(st, path, file_mtime, a) ==
    LET ld == APL_load_lines(path, a.csv_column)
        stored == [st EXCEPT
                  !.initialized = TRUE, !.file_path = path,
                  !.file_mtime = file_mtime, !.csv_column = a.csv_column,
                  !.strip_whitespace = a.strip_whitespace,
                  !.start_value = a.start_value, !.step = a.step,
                  !.max_steps = a.max_steps, !.auto_reset = a.auto_reset,
                  !.lines = ld.lines, !.total_lines = Len(ld.lines),
                  !.next_index = a.start_value, !.emitted_steps = 0,
                  !.last_prompt = <<>>, !.last_line_index = 0,
                  !.last_step_index = 0]
    IN  IF ~ld.ok
        THEN [ok |-> FALSE, err |-> "UnsupportedExtension", st |-> st]
        ELSE IF ld.lines = <<>>
        THEN [ok |-> FALSE, err |-> "ZeroLines", st |-> stored]
        ELSE [ok |-> TRUE, err |-> "", st |-> stored]

APL_reset_state(st, path, file_mtime, a) ==
    LET ld == APL_load_lines(path, a.csv_column)
    IN  IF ~ld.ok
        THEN [ok |-> FALSE, err |-> "UnsupportedExtension", st |-> st]
        ELSE IF ld.lines = <<>>
        THEN [ok |-> FALSE, err |-> "ZeroLines", st |-> st]
        ELSE [ok |-> TRUE, err |-> "",
              st |-> [st EXCEPT
                  !.initialized = TRUE, !.file_path = path,
                  !.file_mtime = file_mtime, !.csv_column = a.csv_column,
                  !.strip_whitespace = a.strip_whitespace,
                  !.start_value = a.start_value, !.step = a.step,
                  !.max_steps = a.max_steps, !.auto_reset = a.auto_reset,
                  !.lines = ld.lines, !.total_lines = Len(ld.lines),
                  !.next_index = a.start_value, !.emitted_steps = 0,
                  !.last_prompt = <<>>, !.last_line_index = 0,
                  !.last_step_index = 0]]

\* a variant: the held call reports the line the cursor has moved on to
APL_hold_advancing(st, a, re) ==
    [st |-> st,
     out |-> SeqReturn(st.last_prompt,
                       APL_normalize_index(st.next_index, st.total_lines),
                       st.last_step_index, st.total_lines, TRUE, TRUE, a, re,
                       FALSE)]

\* next_prompt, lines 241-247: the held output of an exhausted sequencer
APL_hold(st, a, re) ==
    [st |-> st,
     out |-> SeqReturn(st.last_prompt, st.last_line_index, st.last_step_index,
                       st.total_lines, TRUE, TRUE, a, re, FALSE)]

\* next_prompt, lines 249-263: one emission
APL_emit(st, a, re, ra) ==
    LET total == st.total_lines
    IN  IF total = 0
        THEN [st |-> st, out |-> SeqRaise("NoLines")]
        ELSE
        LET index == APL_normalize_index(st.next_index, total)
            raw_prompt == st.lines[index]
            prompt == IF a.strip_whitespace THEN str_strip(raw_prompt) ELSE raw_prompt
            emitted == st.emitted_steps + 1
            step_index == emitted
            done == a.max_steps >= 0 /\ emitted >= a.max_steps
        IN  [st |-> [st EXCEPT !.emitted_steps = emitted,
                               !.next_index = st.next_index + st.step,
                               !.last_prompt = prompt,
                               !.last_line_index = index,
                               !.last_step_index = step_index],
             out |-> SeqReturn(prompt, index, step_index, total, done, FALSE,
                               a, re, ra)]

\* a variant: auto_reset goes on emitting without the reload
APL_exhausted_no_reload(st, path, file_mtime, a, re) ==
    IF a.max_steps >= 0 /\ st.emitted_steps >= a.max_steps
    THEN IF st.auto_reset
         THEN APL_emit(st, a, re, TRUE)
         ELSE APL_hold(st, a, re)
    ELSE APL_emit(st, a, re, FALSE)

\* a variant: the cap is reached one emission late
APL_exhausted_off_by_one(st, path, file_mtime, a, re) ==
    IF a.max_steps >= 0 /\ st.emitted_steps > a.max_steps
    THEN IF st.auto_reset
         THEN LET r == APL_reset_state(st, path, file_mtime, a)
              IN  IF r.ok THEN APL_emit(r.st, a, re, TRUE)
                  ELSE [st |-> r.st, out |-> SeqRaise(r.err)]
         ELSE APL_hold(st, a, re)
    ELSE APL_emit(st, a, re, FALSE)

\* next_prompt, lines 225-247: hold, or reload when auto_reset is set
APL_exhausted(st, path, file_mtime, a, re) ==
    IF a.max_steps >= 0 /\ st.emitted_steps >= a.max_steps
    THEN IF st.auto_reset
         THEN LET r == APL_reset_state(st, path, file_mtime, a)
              IN  IF r.ok THEN APL_emit(r.st, a, re, TRUE)
                  ELSE [st |-> r.st, out |-> SeqRaise(r.err)]
         ELSE APL_hold(st, a, re)
    ELSE APL_emit(st, a, re, FALSE)

APL_next_prompt(st, a) ==
    IF a.file_path = ""
    THEN [st |-> st, out |-> SeqRaise("PathRequired")]
    ELSE
    LET path == a.file_path
    IN  IF ~os_path_isfile(path)
        THEN [st |-> st, out |-> SeqRaise("FileNotFound")]
        ELSE
        LET file_mtime == os_path_getmtime(path)
        IN  IF APL_should_reset(st, path, file_mtime, a)
            THEN LET r == APL_reset_state(st, path, file_mtime, a)
                 IN  IF r.ok
                     THEN APL_exhausted(r.st, path, file_mtime, a, TRUE)
                     ELSE [st |-> r.st, out |-> SeqRaise(r.err)]
            ELSE APL_exhausted(st, path, file_mtime, a, FALSE)

NoEmission == [prompt |-> <<>>, line_index |-> 0, step_index |-> 0]

\* the observer: emissions counted since the last reset, and what the last
\* one returned
SeqObserve(h, out) ==
    IF out.status # "ok"
    THEN h
    ELSE LET base == IF out.reset_entry \/ out.reset_auto
                     THEN [emits |-> 0, last |-> NoEmission]
                     ELSE h
         IN  IF out.held
             THEN base
             ELSE [emits |-> base.emits + 1,
                   last |-> [prompt |-> out.prompt,
                             line_index |-> out.line_index,
                             step_index |-> out.step_index]]

NextPrompt(a) ==
    /\ node = "AutoPromptLineLoader"
    /\ \E r \in {APL_next_prompt(seq, a)} :
         /\ r.st.emitted_steps <= MaxEmit
         /\ seq' = r.st
         /\ seqOut' = r.out
         /\ seqHist' = SeqObserve(seqHist, r.out)
    /\ UNCHANGED <<node, fs, clock, cntVars, compVars, pllVars>>

(***************************************************************************)
(* The files' owner: writes give a file a new modification time.           *)
(***************************************************************************)
WriteFile(path, content) ==
    /\ node # "SimpleNumberCounter"
    /\ clock < MaxClock
    /\ clock' = clock + 1
    /\ fs' = [fs EXCEPT ![path] = [mtime |-> clock + 1, content |-> content]]
    /\ UNCHANGED <<node, seqVars, cntVars, compVars, pllVars>>

(***************************************************************************)
(* Python floats, as binary floating point with a FloatBits-bit            *)
(* significand and round-half-to-even; a value is an integer count of the  *)
(* model's unit.                                                           *)
(***************************************************************************)
RECURSIVE BitLength(_)
BitLength(n) == IF n = 0 THEN 0 ELSE 1 + BitLength(n \div 2)

RECURSIVE Pow2(_)
Pow2(k) == IF k = 0 THEN 1 ELSE 2 * Pow2(k - 1)

FRound(x) ==
    LET a == Abs(x)
        k == BitLength(a)
    IN  IF k <= FloatBits
        THEN x
        ELSE LET u == Pow2(k - FloatBits)
                 q == a \div u
                 r == a % u
                 up == 2 * r > u \/ (2 * r = u /\ q % 2 = 1)
                 m == (IF up THEN q + 1 ELSE q) * u
             IN  IF x < 0 THEN -m ELSE m

\* x + y on floats
FAdd(x, y) == FRound(x + y)

\* x * y on floats
FMul(x, y) == FRound(x * y)

(***************************************************************************)
(* SimpleNumberCounter (the Counter).                                      *)
(***************************************************************************)
CntStarts == {0, 8}
CntSteps == {-3, 0, 1}

CntArgs ==
    [start_value : CntStarts, step : CntSteps, max_steps : MaxStepsValues,
     auto_reset : BOOLEAN, reset : BOOLEAN]

SNC_init ==
    [initialized |-> FALSE, start_value |-> 0, step |-> 1, max_steps |-> -1,
     auto_reset |-> FALSE, next_value |-> 0, last_value |-> 0,
     emitted_steps |-> 0]

NoCntArgs ==
    [start_value |-> 0, step |-> 1, max_steps |-> -1, auto_reset |-> FALSE,
     reset |-> FALSE]

CntReturn(value, step_index, done, held, a, re, ra) ==
    [status |-> "ok", value |-> value, step_index |-> step_index,
     done |-> done, held |-> held, args |-> a, reset_entry |-> re,
     reset_auto |-> ra]

\* a variant: a reset restarts the progression at zero
SNC_reset_state_zero(st, a) ==
    [st EXCEPT !.initialized = TRUE, !.start_value = a.start_value,
               !.step = a.step, !.max_steps = a.max_steps,
               !.auto_reset = a.auto_reset, !.next_value = 0,
               !.last_value = 0, !.emitted_steps = 0]

SNC_reset_state(st, a) ==
    [st EXCEPT !.initialized = TRUE, !.start_value = a.start_value,
               !.step = a.step, !.max_steps = a.max_steps,
               !.auto_reset = a.auto_reset, !.next_value = a.start_value,
               !.last_value = a.start_value, !.emitted_steps = 0]

SNC_should_reset(st, a) ==
    IF a.reset
    THEN TRUE
    ELSE IF ~st.initialized
    THEN TRUE
    ELSE \/ st.start_value # a.start_value
         \/ st.step # a.step
         \/ st.max_steps # a.max_steps
         \/ st.auto_reset # a.auto_reset

\* a variant: a held call starts the count of emissions over
SNC_hold_restarting(st, a, re) ==
    [st |-> [st EXCEPT !.emitted_steps = 0],
     out |-> CntReturn(st.last_value, st.emitted_steps, TRUE, TRUE, a, re, FALSE)]

\* count, lines 112-116: the held output of an exhausted counter
SNC_hold(st, a, re) ==
    [st |-> st,
     out |-> CntReturn(st.last_value, st.emitted_steps, TRUE, TRUE, a, re, FALSE)]

\* a variant: done computed before emitted_steps is incremented
SNC_emit_done_early(st, a, re, ra) ==
    LET value == st.next_value
        emitted == st.emitted_steps + 1
        done == a.max_steps >= 0 /\ st.emitted_steps >= a.max_steps
    IN  [st |-> [st EXCEPT !.last_value = value, !.emitted_steps = emitted,
                           !.next_value = FAdd(value, a.step)],
         out |-> CntReturn(value, emitted, done, FALSE, a, re, ra)]

\* count, lines 118-124: one emission
SNC_emit(st, a, re, ra) ==
    LET value == st.next_value
        emitted == st.emitted_steps + 1
        done == a.max_steps >= 0 /\ emitted >= a.max_steps
    IN  [st |-> [st EXCEPT !.last_value = value, !.emitted_steps = emitted,
                           !.next_value = FAdd(value, a.step)],
         out |-> CntReturn(value, emitted, done, FALSE, a, re, ra)]

\* a variant: the counter is exhausted one emission late
SNC_exhausted_one_more(st, a, re) ==
    IF a.max_steps >= 0 /\ st.emitted_steps > a.max_steps
    THEN IF st.auto_reset
         THEN SNC_emit(SNC_reset_state(st, a), a, re, TRUE)
         ELSE SNC_hold(st, a, re)
    ELSE SNC_emit(st, a, re, FALSE)

\* count, lines 107-116: hold, or restart when auto_reset is set
SNC_exhausted(st, a, re) ==
    IF a.max_steps >= 0 /\ st.emitted_steps >= a.max_steps
    THEN IF st.auto_reset
         THEN SNC_emit(SNC_reset_state(st, a), a, re, TRUE)
         ELSE SNC_hold(st, a, re)
    ELSE SNC_emit(st, a, re, FALSE)

SNC_count(st, a) ==
    IF SNC_should_reset(st, a)
    THEN SNC_exhausted(SNC_reset_state(st, a), a, TRUE)
    ELSE SNC_exhausted(st, a, FALSE)

\* the observer: emissions counted since the last reset
CntObserve(h, out) ==
    LET base == IF out.reset_entry \/ out.reset_auto THEN [emits |-> 0] ELSE h
    IN  IF out.held THEN base ELSE [emits |-> base.emits + 1]

Count(a) ==
    /\ node = "SimpleNumberCounter"
    /\ \E r \in {SNC_count(cnt, a)} :
         /\ r.st.emitted_steps <= MaxEmit
         /\ cnt' = r.st
         /\ cntOut' = r.out
         /\ cntHist' = CntObserve(cntHist, r.out)
    /\ UNCHANGED <<node, fs, clock, seqVars, compVars, pllVars>>

(***************************************************************************)
(* WildcardPromptAssembler (the Composer).                                 *)
(* A source-list entry is a text whose tokens are " ", "#", "::" and whole *)
(* names. A column of None is written "": the code treats the two alike    *)
(* (`if column`, `column or ''`).  A cache or position key is the pair     *)
(* <<path, column>>, which the code writes path + "::" + column.           *)
(***************************************************************************)
MaxCalls == 2     \* compose calls between two resets
MaxRun == 3       \* the same, where the cursors are followed

EmptyMap == [k \in {} |-> 0]

Min(x, y) == IF x <= y THEN x ELSE y

\* a one-name text as the name
Name(t) == IF t = <<>> THEN "" ELSE t[1]

WPA_init == [cache |-> EmptyMap, positions |-> EmptyMap, global_step |-> 0]

\* a reset that also drops the cache
WPA_reset_state_clear_cache(st) ==
    [st EXCEPT !.positions = EmptyMap, !.global_step = 0, !.cache = EmptyMap]

WPA_reset_state(st) ==
    [st EXCEPT !.positions = EmptyMap, !.global_step = 0]

\* a generator whose seed also depends on what the cache holds
WPA_make_rng_by_cache(st, random_seed, entropy) ==
    LET global_step == st.global_step + 1
    IN  [st |-> [st EXCEPT !.global_step = global_step],
         rng |-> IF random_seed >= 0
                 THEN [seeded |-> TRUE,
                       seed |-> random_seed + global_step - 1
                                + Cardinality(DOMAIN st.cache),
                       draws |-> 0, entropy |-> <<>>]
                 ELSE [seeded |-> FALSE, seed |-> -1, draws |-> 0,
                       entropy |-> entropy]]

\* random.Random(seed): the generator is its seed and the number of draws
\* made; random.Random() draws from the entropy the system hands it
WPA_make_rng(st, random_seed, entropy) ==
    LET global_step == st.global_step + 1
    IN  [st |-> [st EXCEPT !.global_step = global_step],
         rng |-> IF random_seed >= 0
                 THEN [seeded |-> TRUE, seed |-> random_seed + global_step - 1,
                       draws |-> 0, entropy |-> <<>>]
                 ELSE [seeded |-> FALSE, seed |-> -1, draws |-> 0,
                       entropy |-> entropy]]

\* the i-th draw (from 0) below n of the generator seeded with seed: a fixed
\* function standing for the Mersenne Twister
SeededDraw(seed, i, n) == (seed * (i + 2) + i) % n

\* rng.randrange(n)
rng_randrange(rng, n) ==
    [value |-> IF rng.seeded
               THEN SeededDraw(rng.seed, rng.draws, n)
               ELSE rng.entropy[rng.draws + 1] % n,
     rng |-> [rng EXCEPT !.draws = @ + 1]]

\* [line.strip() for line in lines if line.strip() and not
\*  line.strip().startswith("#")][:max_files]
ParseEntries(lines, max_files) ==
    LET stripped == [i \in 1..Len(lines) |-> str_strip(lines[i])]
        keep(e) == e # <<>> /\ Head(e) # "#"
        entries == SelectSeq(stripped, keep)
    IN  SubSeq(entries, 1, Min(max_files, Len(entries)))

\* a variant: the list is not cut at max_files
WPA_parse_manual_paths_uncut(manual_paths, max_files) ==
    ParseEntries(manual_paths, Len(manual_paths))

WPA_parse_manual_paths(manual_paths, max_files) ==
    ParseEntries(manual_paths, max_files)

WPA_load_manifest(manifest_path, max_files) ==
    IF manifest_path = ""
    THEN [ok |-> FALSE, err |-> "ManifestPathRequired", files |-> <<>>]
    ELSE IF ~os_path_isfile(manifest_path)
    THEN [ok |-> FALSE, err |-> "ManifestNotFound", files |-> <<>>]
    ELSE [ok |-> TRUE, err |-> "",
          files |-> ParseEntries(fs[manifest_path].content, max_files)]

os_path_isdir(path) == path \in {"d", "m"}

\* the disk's files in lexicographic order, and the directory of each
SortedDisk == <<"d/a.txt", "d/b.txt", "d/c.bin", "m/list.txt">>

DirOf(path) == IF path = "m/list.txt" THEN "m" ELSE "d"

GlobMatches(path, directory, pattern) ==
    /\ DirOf(path) = directory
    /\ \/ pattern = "*"
       \/ pattern = "*.txt" /\ path_ext(path) = ".txt"

WPA_scan_directory(directory_path, directory_glob, max_files) ==
    IF directory_path = ""
    THEN [ok |-> FALSE, err |-> "DirectoryPathRequired", files |-> <<>>]
    ELSE IF ~os_path_isdir(directory_path)
    THEN [ok |-> FALSE, err |-> "DirectoryNotFound", files |-> <<>>]
    ELSE LET pattern == IF directory_glob = "" THEN "*.txt" ELSE directory_glob
             match(p) == GlobMatches(p, directory_path, pattern)
             found == SelectSeq(SortedDisk, match)
             entries == [i \in 1..Len(found) |-> <<found[i]>>]
         IN  [ok |-> TRUE, err |-> "",
              files |-> SubSeq(entries, 1, Min(max_files, Len(entries)))]

WPA_gather_files(a) ==
    IF a.mode = "MANUAL"
    THEN [ok |-> TRUE, err |-> "",
          files |-> WPA_parse_manual_paths(a.manual_paths, a.max_files)]
    ELSE IF a.mode = "CONFIG_FILE"
    THEN WPA_load_manifest(a.manifest_path, a.max_files)
    ELSE IF a.mode = "DIRECTORY"
    THEN WPA_scan_directory(a.directory_path, a.directory_glob, a.max_files)
    ELSE [ok |-> FALSE, err |-> "UnknownMode", files |-> <<>>]

\* custom_inserts is given as its lines; the empty string has none
WPA_parse_custom_inserts(custom_inserts) == custom_inserts

WPA_split_path_and_column(entry, default_column) ==
    IF \E i \in 1..Len(entry) : entry[i] = "::"
    THEN LET i == CHOOSE j \in 1..Len(entry) :
                      /\ entry[j] = "::"
                      /\ \A k \in 1..(j - 1) : entry[k] # "::"
         IN  [path |-> Name(str_strip(SubSeq(entry, 1, i - 1))),
              column |-> Name(str_strip(SubSeq(entry, i + 1, Len(entry))))]
    ELSE [path |-> Name(str_strip(entry)), column |-> default_column]

RECURSIVE ReadTextFrom(_, _, _, _)
ReadTextFrom(content, idx, strip, ignore_blank) ==
    IF idx > Len(content)
    THEN <<>>
    ELSE LET text == IF strip THEN str_strip(content[idx]) ELSE content[idx]
             rest == ReadTextFrom(content, idx + 1, strip, ignore_blank)
         IN  IF ignore_blank /\ text = <<>>
             THEN rest
             ELSE <<[line_index |-> idx, text |-> text]>> \o rest

\* a variant: the records are numbered by their place in the filtered list
WPA_read_text_file_renumbered(path, strip, ignore_blank) ==
    LET records == ReadTextFrom(fs[path].content, 1, strip, ignore_blank)
    IN  [j \in 1..Len(records) |-> [line_index |-> j, text |-> records[j].text]]

WPA_read_text_file(path, strip, ignore_blank) ==
    ReadTextFrom(fs[path].content, 1, strip, ignore_blank)

\* the disk holds text files and one file of an unsupported type: the .csv
\* and .docx readers are not reached
\* a cache that does not look at the modification time
WPA_load_file_lines_no_mtime(cache, path, column, strip, ignore_blank) ==
    LET mtime == os_path_getmtime(path)
        cache_key == <<path, column>>
        hit == /\ cache_key \in DOMAIN cache
               /\ cache[cache_key].strip = strip
               /\ cache[cache_key].ignore_blank = ignore_blank
    IN  IF hit
        THEN [ok |-> TRUE, cache |-> cache,
              records |-> cache[cache_key].records, loaded |-> FALSE]
        ELSE IF path_ext(path) \in {".txt", ".log", ".md"}
        THEN LET records == WPA_read_text_file(path, strip, ignore_blank)
             IN  [ok |-> TRUE,
                  cache |-> (cache_key :> [mtime |-> mtime,
                                           records |-> records,
                                           strip |-> strip,
                                           ignore_blank |-> ignore_blank])
                            @@ cache,
                  records |-> records, loaded |-> TRUE]
        ELSE [ok |-> FALSE, cache |-> cache, records |-> <<>>,
              loaded |-> FALSE]

\* a variant: a stored list is returned whatever flags it was made with
WPA_load_file_lines_any_flags(cache, path, column, strip, ignore_blank) ==
    LET mtime == os_path_getmtime(path)
        cache_key == <<path, column>>
        hit == /\ cache_key \in DOMAIN cache
               /\ cache[cache_key].mtime = mtime
    IN  IF hit
        THEN [ok |-> TRUE, cache |-> cache,
              records |-> cache[cache_key].records, loaded |-> FALSE]
        ELSE IF path_ext(path) \in {".txt", ".log", ".md"}
        THEN LET records == WPA_read_text_file(path, strip, ignore_blank)
             IN  [ok |-> TRUE,
                  cache |-> (cache_key :> [mtime |-> mtime,
                                           records |-> records,
                                           strip |-> strip,
                                           ignore_blank |-> ignore_blank])
                            @@ cache,
                  records |-> records, loaded |-> TRUE]
        ELSE [ok |-> FALSE, cache |-> cache, records |-> <<>>,
              loaded |-> FALSE]

WPA_load_file_lines(cache, path, column, strip, ignore_blank) ==
    LET mtime == os_path_getmtime(path)
        cache_key == <<path, column>>
        hit == /\ cache_key \in DOMAIN cache
               /\ cache[cache_key].mtime = mtime
               /\ cache[cache_key].strip = strip
               /\ cache[cache_key].ignore_blank = ignore_blank
    IN  IF hit
        THEN [ok |-> TRUE, cache |-> cache,
              records |-> cache[cache_key].records, loaded |-> FALSE]
        ELSE IF path_ext(path) \in {".txt", ".log", ".md"}
        THEN LET records == WPA_read_text_file(path, strip, ignore_blank)
             IN  [ok |-> TRUE,
                  cache |-> (cache_key :> [mtime |-> mtime,
                                           records |-> records,
                                           strip |-> strip,
                                           ignore_blank |-> ignore_blank])
                            @@ cache,
                  records |-> records, loaded |-> TRUE]
        ELSE [ok |-> FALSE, cache |-> cache, records |-> <<>>,
              loaded |-> FALSE]

DictGet(d, k, default) == IF k \in DOMAIN d THEN d[k] ELSE default

\* a selection that stores the cursor wrapped
WPA_select_from_records_wrapped(st, path, column, selection_mode, rng, ld) ==
    LET records == ld.records
        st1 == [st EXCEPT !.cache = ld.cache]
    IN  IF ~ld.ok
        THEN [ok |-> FALSE, err |-> "UnsupportedExtension", st |-> st,
              rng |-> rng]
        ELSE IF records = <<>>
        THEN [ok |-> FALSE, err |-> "NoUsableLines", st |-> st1, rng |-> rng]
        ELSE
        LET key == <<path, column>>
            position == DictGet(st1.positions, key, 0)
            draw == rng_randrange(rng, Len(records))
            sequential == selection_mode = "SEQUENTIAL"
            idx == IF sequential THEN position % Len(records) ELSE draw.value
            record == records[idx + 1]
        IN  [ok |-> TRUE, err |-> "",
             st |-> IF sequential
                    THEN [st1 EXCEPT !.positions = (key :> ((position + 1) % Len(records))) @@ @]
                    ELSE st1,
             rng |-> IF sequential THEN rng ELSE draw.rng,
             seg |-> [file |-> path, column |-> column,
                      line_index |-> record.line_index,
                      total_lines |-> Len(records), text |-> record.text,
                      idx |-> idx, loaded |-> ld.loaded, records |-> records]]

\* a variant: a source that is loaded again is read from its first record
WPA_select_from_records_restarting(st, path, column, selection_mode, rng, ld) ==
    LET records == ld.records
        st1 == [st EXCEPT !.cache = ld.cache]
    IN  IF ~ld.ok
        THEN [ok |-> FALSE, err |-> "UnsupportedExtension", st |-> st,
              rng |-> rng]
        ELSE IF records = <<>>
        THEN [ok |-> FALSE, err |-> "NoUsableLines", st |-> st1, rng |-> rng]
        ELSE
        LET key == <<path, column>>
            position == IF ld.loaded THEN 0 ELSE DictGet(st1.positions, key, 0)
            draw == rng_randrange(rng, Len(records))
            sequential == selection_mode = "SEQUENTIAL"
            idx == IF sequential THEN position % Len(records) ELSE draw.value
            record == records[idx + 1]
        IN  [ok |-> TRUE, err |-> "",
             st |-> IF sequential
                    THEN [st1 EXCEPT !.positions = (key :> (position + 1)) @@ @]
                    ELSE st1,
             rng |-> IF sequential THEN rng ELSE draw.rng,
             seg |-> [file |-> path, column |-> column,
                      line_index |-> record.line_index,
                      total_lines |-> Len(records), text |-> record.text,
                      idx |-> idx, loaded |-> ld.loaded, records |-> records]]

\* a variant: one cursor for each file, whatever the column
WPA_select_from_records_by_path(st, path, column, selection_mode, rng, ld) ==
    LET records == ld.records
        st1 == [st EXCEPT !.cache = ld.cache]
    IN  IF ~ld.ok
        THEN [ok |-> FALSE, err |-> "UnsupportedExtension", st |-> st,
              rng |-> rng]
        ELSE IF records = <<>>
        THEN [ok |-> FALSE, err |-> "NoUsableLines", st |-> st1, rng |-> rng]
        ELSE
        LET key == <<path, "">>
            position == DictGet(st1.positions, key, 0)
            draw == rng_randrange(rng, Len(records))
            sequential == selection_mode = "SEQUENTIAL"
            idx == IF sequential THEN position % Len(records) ELSE draw.value
            record == records[idx + 1]
        IN  [ok |-> TRUE, err |-> "",
             st |-> IF sequential
                    THEN [st1 EXCEPT !.positions = (key :> (position + 1)) @@ @]
                    ELSE st1,
             rng |-> IF sequential THEN rng ELSE draw.rng,
             seg |-> [file |-> path, column |-> column,
                      line_index |-> record.line_index,
                      total_lines |-> Len(records), text |-> record.text,
                      idx |-> idx, loaded |-> ld.loaded, records |-> records]]

\* _select_line_from_file, lines 270-284: ld is what _load_file_lines did
WPA_select_from_records(st, path, column, selection_mode, rng, ld) ==
    LET records == ld.records
        st1 == [st EXCEPT !.cache = ld.cache]
    IN  IF ~ld.ok
        THEN [ok |-> FALSE, err |-> "UnsupportedExtension", st |-> st,
              rng |-> rng]
        ELSE IF records = <<>>
        THEN [ok |-> FALSE, err |-> "NoUsableLines", st |-> st1, rng |-> rng]
        ELSE
        LET key == <<path, column>>
            position == DictGet(st1.positions, key, 0)
            draw == rng_randrange(rng, Len(records))
            sequential == selection_mode = "SEQUENTIAL"
            idx == IF sequential THEN position % Len(records) ELSE draw.value
            record == records[idx + 1]
        IN  [ok |-> TRUE, err |-> "",
             st |-> IF sequential
                    THEN [st1 EXCEPT !.positions = (key :> (position + 1)) @@ @]
                    ELSE st1,
             rng |-> IF sequential THEN rng ELSE draw.rng,
             seg |-> [file |-> path, column |-> column,
                      line_index |-> record.line_index,
                      total_lines |-> Len(records), text |-> record.text,
                      idx |-> idx, loaded |-> ld.loaded, records |-> records]]

WPA_select_line_from_file(st, path, column, selection_mode, strip, ignore_blank, rng) ==
    IF ~os_path_isfile(path)
    THEN [ok |-> FALSE, err |-> "FileNotFound", st |-> st, rng |-> rng]
    ELSE WPA_select_from_records(st, path, column, selection_mode, rng,
             WPA_load_file_lines(st.cache, path, column, strip, ignore_blank))

RECURSIVE WPA_compose_loop(_, _, _, _, _, _, _, _)

\* compose, lines 139-155: r is what _select_line_from_file did for source i
WPA_compose_selected(files, i, a, inserts, parts, segments, r) ==
    IF ~r.ok
    THEN [ok |-> FALSE, err |-> r.err, st |-> r.st, parts |-> parts,
          segments |-> segments]
    ELSE WPA_compose_loop(r.st, r.rng, files, i + 1, a, inserts,
             Append(IF i - 1 < Len(inserts) /\ inserts[i] # <<>>
                    THEN Append(parts, inserts[i])
                    ELSE parts,
                    r.seg.text),
             Append(segments, r.seg))

\* compose, lines 131-155: one source after the other, until one raises
WPA_compose_loop(st, rng, files, i, a, inserts, parts, segments) ==
    IF i > Len(files)
    THEN [ok |-> TRUE, err |-> "", st |-> st, parts |-> parts,
          segments |-> segments]
    ELSE WPA_compose_selected(files, i, a, inserts, parts, segments,
             WPA_select_line_from_file(st,
                 WPA_split_path_and_column(files[i], a.csv_column).path,
                 WPA_split_path_and_column(files[i], a.csv_column).column,
                 a.selection_mode, a.strip_whitespace, a.ignore_blank_lines,
                 rng))

RECURSIVE JoinParts(_, _)
\* sep.join(parts)
JoinParts(parts, sep) ==
    IF parts = <<>> THEN <<>>
    ELSE IF Len(parts) = 1 THEN parts[1]
    ELSE parts[1] \o sep \o JoinParts(Tail(parts), sep)

\* a variant: the suffix is put before the insert that follows the last
\* source
WPA_assemble_suffix_first(parts, files, inserts, a) ==
    LET withSuffix == IF a.suffix_text # <<>>
                      THEN Append(parts, a.suffix_text)
                      ELSE parts
        withLast == IF Len(inserts) > Len(files) /\ inserts[Len(files) + 1] # <<>>
                    THEN Append(withSuffix, inserts[Len(files) + 1])
                    ELSE withSuffix
        nonEmpty(part) == part # <<>>
    IN  JoinParts(SelectSeq(withLast, nonEmpty),
                  IF a.auto_space THEN <<" ">> ELSE <<>>)

\* compose, lines 157-167
WPA_assemble(parts, files, inserts, a) ==
    LET withLast == IF Len(inserts) > Len(files) /\ inserts[Len(files) + 1] # <<>>
                    THEN Append(parts, inserts[Len(files) + 1])
                    ELSE parts
        withSuffix == IF a.suffix_text # <<>>
                      THEN Append(withLast, a.suffix_text)
                      ELSE withLast
        nonEmpty(part) == part # <<>>
    IN  JoinParts(SelectSeq(withSuffix, nonEmpty),
                  IF a.auto_space THEN <<" ">> ELSE <<>>)

CompRaise(err, a, segments, rng) ==
    [status |-> "error", error |-> err, args |-> a, prompt |-> <<>>,
     segments |-> segments, file_count |-> 0,
     rng_made |-> rng.draws >= 0, rng_seed |-> rng.seed]

CompReturn(prompt, a, segments, file_count, rng) ==
    [status |-> "ok", error |-> "", args |-> a, prompt |-> prompt,
     segments |-> segments, file_count |-> file_count,
     rng_made |-> TRUE, rng_seed |-> rng.seed]

\* no generator was made
NoRng == [seeded |-> FALSE, seed |-> -1, draws |-> -1, entropy |-> <<>>]

\* compose, lines 157-179: r is what the loop over the sources did
WPA_compose_finish(a, files, inserts, rng, r) ==
    IF ~r.ok
    THEN [st |-> r.st, out |-> CompRaise(r.err, a, r.segments, rng)]
    ELSE [st |-> r.st,
          out |-> CompReturn(WPA_assemble(r.parts, files, inserts, a),
                             a, r.segments, Len(files), rng)]

\* compose, lines 124-155: mk is what _make_rng did
WPA_compose_files(a, files, inserts, mk) ==
    WPA_compose_finish(a, files, inserts, mk.rng,
        WPA_compose_loop(mk.st, mk.rng, files, 1, a, inserts,
                         IF a.prefix_text # <<>> THEN <<a.prefix_text>>
                                                 ELSE <<>>,
                         <<>>))

\* a variant: the generator is made before the sources are looked at
WPA_compose_gathered_rng_first(st1, a, entropy, g) ==
    IF ~g.ok
    THEN [st |-> WPA_make_rng(st1, a.random_seed, entropy).st,
          out |-> CompRaise(g.err, a, <<>>, NoRng)]
    ELSE IF g.files = <<>>
    THEN [st |-> WPA_make_rng(st1, a.random_seed, entropy).st,
          out |-> CompRaise("NoSources", a, <<>>, NoRng)]
    ELSE WPA_compose_files(a, g.files,
             WPA_parse_custom_inserts(a.custom_inserts),
             WPA_make_rng(st1, a.random_seed, entropy))

\* compose, lines 113-126: st1 is the state after the reset, g is what
\* _gather_files did
WPA_compose_gathered(st1, a, entropy, g) ==
    IF ~g.ok
    THEN [st |-> st1, out |-> CompRaise(g.err, a, <<>>, NoRng)]
    ELSE IF g.files = <<>>
    THEN [st |-> st1, out |-> CompRaise("NoSources", a, <<>>, NoRng)]
    ELSE WPA_compose_files(a, g.files,
             WPA_parse_custom_inserts(a.custom_inserts),
             WPA_make_rng(st1, a.random_seed, entropy))

WPA_compose(st0, a, entropy) ==
    WPA_compose_gathered(IF a.reset THEN WPA_reset_state(st0) ELSE st0,
                         a, entropy, WPA_gather_files(a))

(***************************************************************************)
(* The compose calls the host makes.                                       *)
(***************************************************************************)
CompDefaults ==
    [mode |-> "MANUAL", selection_mode |-> "RANDOM", auto_space |-> TRUE,
     strip_whitespace |-> TRUE, ignore_blank_lines |-> TRUE,
     random_seed |-> -1, manual_paths |-> <<>>, manifest_path |-> "",
     directory_path |-> "", directory_glob |-> "*.txt", max_files |-> 16,
     custom_inserts |-> <<>>, prefix_text |-> <<>>, suffix_text |-> <<>>,
     csv_column |-> "", reset |-> FALSE]

P_a == << <<"d/a.txt">> >>
P_ab == << <<"d/a.txt">>, <<"d/b.txt">> >>
P_aa == << <<"d/a.txt">>, <<"d/a.txt">> >>
P_ac == << <<"d/a.txt", "::", "c">> >>
P_am == << <<"d/a.txt">>, <<"d/missing.txt">> >>
P_bin == << <<"d/c.bin">> >>
P_none == << <<"#", "d/a.txt">>, <<>>, <<" ">> >>
P_pad == << <<" ", "d/b.txt", " ">>, <<"#", "d/a.txt">>, <<>>,
            <<"d/a.txt", " ", "::", " ", "c">> >>

\* one source: the formatting options, and seeded and unseeded calls with
\* and without reset
FormatCalls ==
    {[CompDefaults EXCEPT !.manual_paths = P_a,
                          !.selection_mode = "SEQUENTIAL",
                          !.strip_whitespace = s, !.ignore_blank_lines = g] :
        s \in BOOLEAN, g \in BOOLEAN}
    \cup
    {[CompDefaults EXCEPT !.manual_paths = P_a, !.selection_mode = m,
                          !.random_seed = r, !.reset = x] :
        m \in {"SEQUENTIAL", "RANDOM"}, r \in {-1, 1}, x \in BOOLEAN}

\* the source lists
ListCalls ==
    {[CompDefaults EXCEPT !.manual_paths = P,
                          !.selection_mode = "SEQUENTIAL"] :
        P \in {P_ab, P_aa, P_ac, P_am, P_bin, P_none, P_pad}}
    \cup
    {[CompDefaults EXCEPT !.manual_paths = P_ab, !.random_seed = r] :
        r \in {0, 1}}
    \cup
    {[CompDefaults EXCEPT !.manual_paths = P_a, !.csv_column = "c",
                          !.selection_mode = "SEQUENTIAL"],
     [CompDefaults EXCEPT !.manual_paths = P_ab, !.max_files = 1,
                          !.selection_mode = "SEQUENTIAL"]}

\* a comment line that is indented, and a list longer than max_files
P_ind == << <<"d/a.txt">>, <<" ", "#", "d/b.txt">> >>
P_aba == << <<"d/a.txt">>, <<"#">>, <<"d/b.txt">>, <<"d/a.txt">> >>

\* the calls of the instance whose source lists and assembled prompts are
\* examined
ResolveCalls ==
    {[CompDefaults EXCEPT !.manual_paths = P, !.max_files = n,
                          !.selection_mode = "SEQUENTIAL"] :
        P \in {P_pad, P_ind, P_aba}, n \in {1, 2}}
    \cup
    {[CompDefaults EXCEPT !.manual_paths = P,
                          !.selection_mode = "SEQUENTIAL"] :
        P \in {P_none, <<>>}}
    \cup
    {[CompDefaults EXCEPT !.manual_paths = P_aba, !.random_seed = 1],
     [CompDefaults EXCEPT !.manual_paths = P_am,
                          !.selection_mode = "SEQUENTIAL"],
     [CompDefaults EXCEPT !.manual_paths = P_am,
                          !.selection_mode = "SEQUENTIAL", !.reset = TRUE],
     [CompDefaults EXCEPT !.manual_paths = P_am, !.random_seed = 1],
     [CompDefaults EXCEPT !.manual_paths = P_none, !.reset = TRUE],
     [CompDefaults EXCEPT !.manual_paths = P_aba,
                          !.selection_mode = "SEQUENTIAL"],
     [CompDefaults EXCEPT !.manual_paths = P_a,
                          !.selection_mode = "SEQUENTIAL", !.reset = TRUE],
     [CompDefaults EXCEPT !.manual_paths = P_a, !.random_seed = 1,
                          !.reset = TRUE]}

\* the other ways to name the sources
ModeCalls ==
    {[CompDefaults EXCEPT !.mode = "FOLDER", !.manual_paths = P_a],
     [CompDefaults EXCEPT !.mode = "CONFIG_FILE"],
     [CompDefaults EXCEPT !.mode = "CONFIG_FILE", !.reset = TRUE],
     [CompDefaults EXCEPT !.mode = "CONFIG_FILE",
                          !.manifest_path = "m/missing.txt"],
     [CompDefaults EXCEPT !.mode = "CONFIG_FILE",
                          !.manifest_path = "m/list.txt",
                          !.selection_mode = "SEQUENTIAL"],
     [CompDefaults EXCEPT !.mode = "DIRECTORY"],
     [CompDefaults EXCEPT !.mode = "DIRECTORY", !.directory_path = "x"],
     [CompDefaults EXCEPT !.mode = "DIRECTORY", !.directory_path = "d",
                          !.max_files = 2, !.selection_mode = "SEQUENTIAL"],
     [CompDefaults EXCEPT !.mode = "DIRECTORY", !.directory_path = "d",
                          !.directory_glob = "*",
                          !.selection_mode = "SEQUENTIAL"]}

\* the texts put around the selections
AssemblyCalls ==
    {[CompDefaults EXCEPT !.manual_paths = P_ab,
                          !.selection_mode = "SEQUENTIAL",
                          !.prefix_text = <<"p">>, !.suffix_text = <<"s">>,
                          !.custom_inserts = << <<"x">>, <<>>, <<"z">> >>,
                          !.auto_space = sp] : sp \in BOOLEAN}

\* more inserts than sources and one, fewer inserts than sources, and a
\* source whose second line is empty once stripped
P_b == << <<"d/b.txt">> >>

JoinCalls ==
    {[CompDefaults EXCEPT !.manual_paths = P_ab,
                          !.selection_mode = "SEQUENTIAL",
                          !.prefix_text = <<"p">>,
                          !.custom_inserts = << <<"x">>, <<"y">>, <<"z">>, <<"w">> >>,
                          !.auto_space = FALSE],
     [CompDefaults EXCEPT !.manual_paths = P_ab,
                          !.selection_mode = "SEQUENTIAL",
                          !.suffix_text = <<"s">>,
                          !.custom_inserts = << <<"x">> >>],
     [CompDefaults EXCEPT !.manual_paths = P_b,
                          !.selection_mode = "SEQUENTIAL",
                          !.ignore_blank_lines = FALSE,
                          !.prefix_text = <<"p">>, !.suffix_text = <<"s">>]}

CompArgs == FormatCalls \cup ListCalls \cup ModeCalls \cup AssemblyCalls

\* the calls of the instance whose cursors and cache are examined
CoreCalls ==
    FormatCalls
    \cup
    {[CompDefaults EXCEPT !.manual_paths = P,
                          !.selection_mode = "SEQUENTIAL"] :
        P \in {P_ab, P_aa, P_ac, P_am, P_none}}
    \cup
    {[CompDefaults EXCEPT !.manual_paths = P_a, !.selection_mode = "SHUFFLE",
                          !.random_seed = 1],
     [CompDefaults EXCEPT !.mode = "FOLDER", !.manual_paths = P_a]}

\* the calls of the instance whose cursors are followed over longer runs
CursorCalls ==
    {[CompDefaults EXCEPT !.manual_paths = P_a,
                          !.selection_mode = "SEQUENTIAL", !.reset = x] :
        x \in BOOLEAN}
    \cup
    {[CompDefaults EXCEPT !.manual_paths = P,
                          !.selection_mode = "SEQUENTIAL"] :
        P \in {P_ab, P_aa}}
    \cup
    {[CompDefaults EXCEPT !.manual_paths = P_a,
                          !.selection_mode = "SEQUENTIAL",
                          !.strip_whitespace = FALSE,
                          !.ignore_blank_lines = FALSE],
     [CompDefaults EXCEPT !.manual_paths = P_a]}

\* the calls of the instance whose seeds are examined
SeedCalls ==
    {[CompDefaults EXCEPT !.manual_paths = P_a, !.random_seed = 1,
                          !.reset = x] : x \in BOOLEAN}
    \cup
    {[CompDefaults EXCEPT !.manual_paths = P_a],
     [CompDefaults EXCEPT !.manual_paths = P_ab, !.random_seed = 0],
     [CompDefaults EXCEPT !.manual_paths = P_am, !.random_seed = 1],
     [CompDefaults EXCEPT !.manual_paths = P_none, !.random_seed = 1],
     [CompDefaults EXCEPT !.mode = "CONFIG_FILE", !.random_seed = 1,
                          !.reset = TRUE]}

\* what is written to a file the Composer reads
CompContents == {<<>>, <<Line_b, Line_sp, Line_c>>}

\* the calls of the instance whose cache is followed: one source under each
\* combination of the flags, a reset, and one source named twice
CacheCalls ==
    {[CompDefaults EXCEPT !.manual_paths = P_a,
                          !.selection_mode = "SEQUENTIAL",
                          !.strip_whitespace = s, !.ignore_blank_lines = g] :
        s \in BOOLEAN, g \in BOOLEAN}
    \cup
    {[CompDefaults EXCEPT !.manual_paths = P_a,
                          !.selection_mode = "SEQUENTIAL", !.reset = TRUE],
     [CompDefaults EXCEPT !.manual_paths = P_aa,
                          !.selection_mode = "SEQUENTIAL"]}

\* what is written to the file whose cache entry is followed: a file of one
\* blank line has no usable line when blank lines are ignored
CacheContents == {<<Line_sp>>, <<Line_b, Line_sp, Line_c>>}

\* what random.Random() may draw, one value for each source: consulted only
\* by an unseeded call that is not SEQUENTIAL
Entropies(a) ==
    IF a.random_seed < 0 /\ a.selection_mode # "SEQUENTIAL"
    THEN [1..Len(a.manual_paths) -> {0, 1, 2}]
    ELSE {<<>>}

CompKeys == DiskPaths \X {"", "c"}

SegKey(seg) == <<seg.file, seg.column>>

\* the request a segment answered: the flags, and the file's modification
\* time when it was made
SegRequest(seg, a) ==
    <<a.strip_whitespace, a.ignore_blank_lines, fs[seg.file].mtime>>

CompHistInit ==
    [calls |-> 0, made |-> 0, sel |-> [k \in CompKeys |-> 0],
     recent |-> [k \in CompKeys |-> <<>>], kept |-> {}]

\* the observer: since the last reset (or creation), the calls made, the
\* calls that made a generator, and the SEQUENTIAL selections per key; since
\* creation, the most recent request made for each key (written holds the
\* keys whose entry the call stored, a segment names a key it selected
\* from), and the requests of at most one earlier call kept for comparison
CompObserve(h, out, keep, written) ==
    LET base == IF out.args.reset
                THEN [CompHistInit EXCEPT !.recent = h.recent, !.kept = h.kept]
                ELSE h
        segs == out.segments
        picked(k) ==
            IF out.args.selection_mode = "SEQUENTIAL"
            THEN Cardinality({i \in 1..Len(segs) : SegKey(segs[i]) = k})
            ELSE 0
    IN  [calls |-> base.calls + 1,
         made |-> base.made + (IF out.rng_made THEN 1 ELSE 0),
         sel |-> [k \in CompKeys |-> base.sel[k] + picked(k)],
         recent |-> [k \in CompKeys |->
                        IF \/ k \in written
                           \/ \E i \in 1..Len(segs) : SegKey(segs[i]) = k
                        THEN <<out.args.strip_whitespace,
                               out.args.ignore_blank_lines, fs[k[1]].mtime>>
                        ELSE h.recent[k]],
         kept |-> IF keep
                  THEN {<<SegKey(segs[i]), SegRequest(segs[i], out.args)>> :
                           i \in 1..Len(segs)}
                  ELSE h.kept]

\* what a seeded call did: the calls since the last reset (or creation) up
\* to this one, the number of them that made a generator, the seed its
\* generator was given, and the indices it selected
RngEntry(trace, h, out) ==
    [trace |-> trace, random_seed |-> out.args.random_seed,
     calls |-> h.calls, made |-> h.made, rng_made |-> out.rng_made,
     rng_seed |-> out.rng_seed, status |-> out.status,
     picks |-> [i \in 1..Len(out.segments) |-> out.segments[i].idx]]

\* the observer of seeds: the calls since the last reset, and at most one
\* earlier call kept for comparison
RngObserve(log, h, out, keep) ==
    LET a == [out.args EXCEPT !.reset = FALSE]
        trace == IF out.args.reset THEN <<a>> ELSE Append(log.trace, a)
    IN  [trace |-> trace,
         last |-> RngEntry(trace, h, out),
         kept |-> IF keep THEN {log.last} ELSE log.kept]

RngLogInit ==
    [trace |-> <<>>, kept |-> {},
     last |-> [trace |-> <<>>, random_seed |-> -1, calls |-> 0, made |-> 0,
               rng_made |-> FALSE, rng_seed |-> -1, status |-> "none",
               picks |-> <<>>]]

Compose(a, entropy, bound, keep) ==
    /\ node = "WildcardPromptAssembler"
    /\ keep => compHist.kept = {}
    /\ \E r \in {WPA_compose(comp, a, entropy)} :
         \E h \in {CompObserve(compHist, r.out, keep,
                                {k \in DOMAIN r.st.cache :
                                    DictGet(comp.cache, k, <<>>) # r.st.cache[k]})} :
            /\ h.calls <= bound
            /\ keep => h.kept # {}
            /\ comp' = r.st
            /\ compOut' = r.out
            /\ compHist' = h
    /\ UNCHANGED <<node, fs, clock, seqVars, cntVars, pllVars>>

ComposeCall(a, entropy) ==
    /\ Compose(a, entropy, MaxCalls, FALSE)
    /\ UNCHANGED rngLog

ComposeRun(a, entropy) ==
    /\ Compose(a, entropy, MaxRun, FALSE)
    /\ UNCHANGED rngLog

ComposeKept(a, entropy, keep) ==
    /\ Compose(a, entropy, MaxRun, keep)
    /\ UNCHANGED rngLog

ComposeLogged(a, entropy, keep) ==
    /\ Compose(a, entropy, MaxCalls, FALSE)
    /\ keep => rngLog.kept = {}
    /\ rngLog' = RngObserve(rngLog, compHist', compOut', keep)

(***************************************************************************)
(* PromptLineLoader (the Loader): one lookup, no state.  The instance has  *)
(* no attributes; load_line is given it and hands it back.                 *)
(***************************************************************************)
LineIndexes == {-4, -3, -2, -1, 0, 1, 2, 3, 4, 5, 6}

\* The calls the host makes: every line_index on the default file, and the
\* other files and flags for some of them.
LoadArgs ==
    [file_path : {"d/a.txt"}, line_index : LineIndexes, csv_column : {""},
     strip_whitespace : {TRUE}]
    \cup
    [file_path : {"d/a.txt", "d/b.txt"}, line_index : {-2, 4},
     csv_column : {""}, strip_whitespace : {FALSE}]
    \cup
    [file_path : {"", "d/b.txt", "d/c.bin", "d/missing.txt"},
     line_index : {4}, csv_column : {"", "c"}, strip_whitespace : {TRUE}]

PLL_init == EmptyMap

NoLoadArgs ==
    [file_path |-> "", line_index |-> 1, csv_column |-> "",
     strip_whitespace |-> TRUE]

LoadRaise(err, a, lines) ==
    [status |-> "error", error |-> err, args |-> a, lines |-> lines,
     prompt |-> <<>>, line_index |-> 0, total_lines |-> 0]

LoadReturn(text, index, total_lines, a, lines) ==
    [status |-> "ok", error |-> "", args |-> a, lines |-> lines,
     prompt |-> text, line_index |-> index, total_lines |-> total_lines]

\* load_line, line 91: a Python list subscript, zero-based, a negative one
\* counting from the end
list_getitem(lines, k) == IF k >= 0 THEN lines[k + 1] ELSE lines[Len(lines) + k + 1]

\* a variant: the remainder of a truncating division, with the sign of
\* line_index - 1
PLL_index_truncating(line_index, total_lines) ==
    IF line_index - 1 >= 0
    THEN ((line_index - 1) % total_lines) + 1
    ELSE 1 - ((1 - line_index) % total_lines)

\* load_line, line 90
PLL_index(line_index, total_lines) == ((line_index - 1) % total_lines) + 1

PLL_read_txt(path) == fs[path].content

\* a variant: the lines of a file are read once and kept on the instance
PLL_load_line_lines_kept(st, a, lines) ==
    IF Len(lines) = 0
    THEN [st |-> st, out |-> LoadRaise("ZeroLines", a, lines)]
    ELSE [st |-> (a.file_path :> DictGet(st, a.file_path, lines)) @@ st,
          out |-> LoadReturn(
                     IF a.strip_whitespace
                     THEN str_strip(DictGet(st, a.file_path, lines)
                              [PLL_index(a.line_index,
                                   Len(DictGet(st, a.file_path, lines)))])
                     ELSE DictGet(st, a.file_path, lines)
                              [PLL_index(a.line_index,
                                   Len(DictGet(st, a.file_path, lines)))],
                     PLL_index(a.line_index,
                               Len(DictGet(st, a.file_path, lines))),
                     Len(DictGet(st, a.file_path, lines)), a, lines)]

\* load_line, lines 86-96: lines is what the reader returned
PLL_load_line_lines(st, a, lines) ==
    IF Len(lines) = 0
    THEN [st |-> st, out |-> LoadRaise("ZeroLines", a, lines)]
    ELSE [st |-> st,
          out |-> LoadReturn(
                     IF a.strip_whitespace
                     THEN str_strip(list_getitem(lines,
                              PLL_index(a.line_index, Len(lines)) - 1))
                     ELSE list_getitem(lines,
                              PLL_index(a.line_index, Len(lines)) - 1),
                     PLL_index(a.line_index, Len(lines)), Len(lines), a,
                     lines)]

\* only text files are on the model's disk: the .md, .csv and .docx readers
\* are not reached
PLL_load_line(st, a) ==
    IF a.file_path = ""
    THEN [st |-> st, out |-> LoadRaise("PathRequired", a, <<>>)]
    ELSE IF ~os_path_isfile(a.file_path)
    THEN [st |-> st, out |-> LoadRaise("FileNotFound", a, <<>>)]
    ELSE IF path_ext(a.file_path) \notin {".txt", ".log"}
    THEN [st |-> st, out |-> LoadRaise("UnsupportedExtension", a, <<>>)]
    ELSE PLL_load_line_lines(st, a, PLL_read_txt(a.file_path))

\* keep: the observer puts the call before this one aside for comparison
LoadLine(a, keep) ==
    /\ node = "PromptLineLoader"
    /\ keep => (pllKept = {} /\ pllOut.status # "none")
    /\ \E r \in {PLL_load_line(pll, a)} :
         /\ pll' = r.st
         /\ pllOut' = r.out
    /\ pllKept' = IF keep THEN {pllOut} ELSE pllKept
    /\ UNCHANGED <<node, fs, clock, seqVars, cntVars, compVars>>

(***************************************************************************)
(* Sequencer and Counter instances.                                        *)
(***************************************************************************)
InitFs ==
    [p \in DiskPaths |->
        [content |-> CASE p = "d/a.txt" -> <<Line_a, Line_b>>
                       [] p = "d/b.txt" -> <<Line_b, Line_sp, Line_c>>
                       [] p = "m/list.txt" ->
                            << <<"d/b.txt">>, <<"#", "d/a.txt">>, <<>>,
                               <<" ", "d/a.txt">> >>
                       [] OTHER -> <<Line_b>>,
         mtime |-> 0]]

InitState ==
    /\ fs = InitFs
    /\ clock = 0
    /\ seq = APL_init
    /\ seqOut = [SeqRaise("") EXCEPT !.status = "none"]
    /\ seqHist = [emits |-> 0, last |-> NoEmission]
    /\ cnt = SNC_init
    /\ cntOut = [CntReturn(0, 0, FALSE, FALSE, NoCntArgs, FALSE, FALSE)
                    EXCEPT !.status = "none"]
    /\ cntHist = [emits |-> 0]
    /\ comp = WPA_init
    /\ compOut = [CompRaise("", CompDefaults, <<>>, NoRng)
                     EXCEPT !.status = "none"]
    /\ compHist = CompHistInit
    /\ rngLog = RngLogInit
    /\ pll = PLL_init
    /\ pllOut = [LoadRaise("", NoLoadArgs, <<>>) EXCEPT !.status = "none"]
    /\ pllKept = {}

Init ==
    /\ node \in {"AutoPromptLineLoader", "SimpleNumberCounter"}
    /\ InitState

Next ==
    \/ \E a \in SeqArgs : NextPrompt(a)
    \/ \E a \in CntArgs : Count(a)
    \/ \E p \in WrittenPaths, c \in Contents : WriteFile(p, c)

Spec == Init /\ [][Next]_vars

(***************************************************************************)
(* A Composer instance.                                                    *)
(***************************************************************************)
InitComp ==
    /\ node = "WildcardPromptAssembler"
    /\ InitState

NextComp ==
    \/ \E a \in CoreCalls : \E e \in Entropies(a) : ComposeCall(a, e)
    \/ \E p \in WrittenPaths, c \in CompContents : WriteFile(p, c)

SpecComp == InitComp /\ [][NextComp]_vars

\* an instance followed over longer runs of fewer calls
NextCursor ==
    \/ \E a \in CursorCalls : \E e \in Entropies(a) : ComposeRun(a, e)
    \/ \E p \in WrittenPaths, c \in CompContents : WriteFile(p, c)

SpecCursor == InitComp /\ [][NextCursor]_vars

\* an instance whose source lists are followed
NextLists ==
    \/ \E a \in ResolveCalls \cup AssemblyCalls \cup JoinCalls :
          \E e \in Entropies(a) : ComposeCall(a, e)
    \/ \E p \in WrittenPaths, c \in CompContents : WriteFile(p, c)

SpecLists == InitComp /\ [][NextLists]_vars

\* an instance whose requests to the cache are followed
NextCache ==
    \/ \E a \in CacheCalls : \E e \in Entropies(a) : \E keep \in BOOLEAN :
          ComposeKept(a, e, keep)
    \/ \E p \in WrittenPaths, c \in CacheContents : WriteFile(p, c)

SpecCache == InitComp /\ [][NextCache]_vars

\* an instance over files that do not change, with its seeds logged
NextSeeds ==
    \E a \in SeedCalls : \E e \in Entropies(a) : \E keep \in BOOLEAN :
        ComposeLogged(a, e, keep)

SpecSeeds == InitComp /\ [][NextSeeds]_vars

(***************************************************************************)
(* A Sequencer and a Counter driven side by side: every step calls both   *)
(* with the same max_steps, auto_reset and reset; the other inputs of the   *)
(* two take one of four configurations, changed for both at once.  The     *)
(* files are not written.                                                  *)
(***************************************************************************)
PairArgs ==
    [config : 1..4, max_steps : MaxStepsValues \cup {1, 3}, auto_reset : BOOLEAN,
     reset : BOOLEAN]

PairSeqArgs(p) ==
    [file_path |-> IF p.config \in {1, 3} THEN "d/a.txt" ELSE "d/b.txt",
     start_value |-> IF p.config <= 2 THEN 2 ELSE -1,
     step |-> IF p.config <= 2 THEN 1 ELSE -2,
     max_steps |-> p.max_steps, auto_reset |-> p.auto_reset,
     reset |-> p.reset, csv_column |-> "",
     strip_whitespace |-> p.config \in {1, 3}]

PairCntArgs(p) ==
    [start_value |-> IF p.config \in {1, 3} THEN 0 ELSE 8,
     step |-> IF p.config <= 2 THEN 1 ELSE -3,
     max_steps |-> p.max_steps, auto_reset |-> p.auto_reset,
     reset |-> p.reset]

NextPromptAndCount(p) ==
    /\ node = "AutoPromptLineLoader+SimpleNumberCounter"
    /\ \E rs \in {APL_next_prompt(seq, PairSeqArgs(p))} :
         \E rc \in {SNC_count(cnt, PairCntArgs(p))} :
            /\ rs.st.emitted_steps <= MaxEmit
            /\ rc.st.emitted_steps <= MaxEmit
            /\ seq' = rs.st
            /\ seqOut' = rs.out
            /\ seqHist' = SeqObserve(seqHist, rs.out)
            /\ cnt' = rc.st
            /\ cntOut' = rc.out
            /\ cntHist' = CntObserve(cntHist, rc.out)
    /\ UNCHANGED <<node, fs, clock, compVars, pllVars>>

InitPair ==
    /\ node = "AutoPromptLineLoader+SimpleNumberCounter"
    /\ InitState

NextPair == \E p \in PairArgs : NextPromptAndCount(p)

SpecPair == InitPair /\ [][NextPair]_vars

(***************************************************************************)
(* A Loader instance.                                                      *)
(***************************************************************************)
InitLoader ==
    /\ node = "PromptLineLoader"
    /\ InitState

NextLoader ==
    \/ \E a \in LoadArgs : \E keep \in BOOLEAN : LoadLine(a, keep)
    \/ \E p \in WrittenPaths, c \in Contents : WriteFile(p, c)

SpecLoader == InitLoader /\ [][NextLoader]_vars

(***************************************************************************)
(* Properties of the Sequencer and the Counter.                            *)
(***************************************************************************)
SeqOk == seqOut.status = "ok"
CntOk == cntOut.status = "ok"

SeqTriple(o) == <<o.prompt, o.line_index, o.step_index>>

\* C1: with max_steps = N >= 0 and auto_reset false, no more than N
\* emissions happen between resets; every later call (same fingerprint, no
\* reset) is a held call that returns done = TRUE and, for N >= 1, exactly
\* the (prompt, line_index, step_index) the N-th call returned.
C1_HoldFrozen ==
    SeqOk =>
        /\ (~seq.auto_reset /\ seq.max_steps >= 0)
               => seqHist.emits <= seq.max_steps
        /\ seqOut.held =>
               /\ seqOut.done
               /\ ~seq.auto_reset /\ seq.max_steps >= 0
               /\ seqHist.emits = seq.max_steps
               /\ seq.max_steps >= 1 =>
                      /\ seqHist.last.step_index = seq.max_steps
                      /\ SeqTriple(seqOut) = SeqTriple(seqHist.last)

C1_Witness ==
    /\ SeqOk /\ seqOut.held /\ ~seqOut.reset_entry
    /\ seq.max_steps = 2 /\ seqOut.step_index = 2
    /\ seqOut.prompt = <<"b">>

\* the call made in this step returned (a call never touches the files, a
\* write always does)
SeqCallReturns ==
    /\ node = "AutoPromptLineLoader"
    /\ fs' = fs
    /\ seqOut'.status = "ok"

\* C2: with max_steps = N >= 0 and auto_reset true, the call after the one
\* that reached exhaustion reloads, restarts emitted_steps and next_index
\* and emits the record at start_value with step_index 1; no call returns a
\* held output while auto_reset is true.
C2_AutoReset ==
    /\ [][(/\ SeqCallReturns
           /\ seq.initialized /\ seq.auto_reset /\ seq.max_steps >= 0
           /\ seq.emitted_steps >= seq.max_steps
           /\ seqOut'.args.auto_reset /\ seqOut'.args.max_steps >= 0)
          => LET a == seqOut'.args
                 content == fs[a.file_path].content
                 index == ((a.start_value - 1) % Len(content)) + 1
             IN  /\ seqOut'.reset_entry \/ seqOut'.reset_auto
                 /\ ~seqOut'.held
                 /\ seq'.lines = content
                 /\ seq'.emitted_steps = 1
                 /\ seq'.next_index = a.start_value + a.step
                 /\ seqOut'.step_index = 1
                 /\ seqOut'.line_index = index
                 /\ seqOut'.prompt = IF a.strip_whitespace
                                     THEN str_strip(content[index])
                                     ELSE content[index]
         ]_vars
    /\ [](SeqOk /\ seqOut.held => ~seqOut.args.auto_reset)

C2_Witness ==
    /\ SeqOk /\ seqOut.reset_auto /\ ~seqOut.reset_entry
    /\ seq.max_steps = 2 /\ seqOut.step_index = 1 /\ seq.emitted_steps = 1

\* C3: a returning call of next_prompt or of count returns done = TRUE
\* exactly when max_steps >= 0 and the emitted_steps in the state at return
\* is >= max_steps, on an emitting call and on a held call.
C3_DoneFlag ==
    /\ SeqOk => (seqOut.done <=>
                    (seqOut.args.max_steps >= 0
                     /\ seq.emitted_steps >= seqOut.args.max_steps))
    /\ CntOk => (cntOut.done <=>
                    (cntOut.args.max_steps >= 0
                     /\ cnt.emitted_steps >= cntOut.args.max_steps))

C3_Witness ==
    /\ CntOk /\ ~cntOut.held /\ cntOut.done
    /\ cntOut.args.max_steps = 2 /\ cnt.emitted_steps = 2

\* the 1-based position the n-th emission after a reset reads
C4_Index == ((seq.start_value + (seqHist.emits - 1) * seq.step - 1)
                 % seq.total_lines) + 1

C4_Position ==
    /\ seqOut.step_index = seqHist.emits
    /\ seq.total_lines = Len(seq.lines)
    /\ seqOut.total_lines = seq.total_lines
    /\ seqOut.line_index = C4_Index

\* C4 (as amended): the n-th emitting call after a reset returns
\* step_index = n, line_index = ((start_value + (n-1)*step - 1) mod total) + 1
\* and the record stored at that position, with its surrounding whitespace
\* removed when strip_whitespace is true.
C4_EmissionSequence ==
    (SeqOk /\ ~seqOut.held) =>
        /\ C4_Position
        /\ seqOut.prompt = IF seqOut.args.strip_whitespace
                           THEN str_strip(seq.lines[C4_Index])
                           ELSE seq.lines[C4_Index]

\* C4 (as claimed): ... and returns the record stored at that position.
C4_Original_StoredRecord ==
    (SeqOk /\ ~seqOut.held) =>
        /\ C4_Position
        /\ seqOut.prompt = seq.lines[C4_Index]

C4_Witness ==
    /\ SeqOk /\ ~seqOut.held
    /\ seq.start_value = -1 /\ seq.step = -2 /\ seqOut.step_index = 3
    /\ seq.total_lines = 3 /\ seqOut.line_index = 1

\* C5: a returning call resets (next_index = start_value, emitted_steps = 0,
\* records reloaded, before emitting) exactly when the instance is
\* uninitialized, reset is true, a fingerprint field differs from the stored
\* one, or exhaustion with auto_reset is detected; otherwise next_index and
\* emitted_steps carry over from the previous call.
C5_ResetCondition ==
    [][SeqCallReturns =>
        LET a == seqOut'.args
            differs ==
                <<seq.file_path, seq.file_mtime, seq.start_value, seq.step,
                  seq.max_steps, seq.auto_reset, seq.csv_column,
                  seq.strip_whitespace>>
                # <<a.file_path, fs[a.file_path].mtime, a.start_value, a.step,
                    a.max_steps, a.auto_reset, a.csv_column,
                    a.strip_whitespace>>
            exhausted == a.max_steps >= 0 /\ seq.emitted_steps >= a.max_steps
            cond == \/ ~seq.initialized
                    \/ a.reset
                    \/ differs
                    \/ (exhausted /\ a.auto_reset)
            didReset == seqOut'.reset_entry \/ seqOut'.reset_auto
            from == IF didReset
                    THEN [next_index |-> a.start_value, emitted_steps |-> 0]
                    ELSE [next_index |-> seq.next_index,
                          emitted_steps |-> seq.emitted_steps]
        IN  /\ didReset <=> cond
            /\ didReset => seq'.lines = fs[a.file_path].content
            /\ ~didReset => seq'.lines = seq.lines
            /\ IF seqOut'.held
               THEN /\ seq'.next_index = from.next_index
                    /\ seq'.emitted_steps = from.emitted_steps
               ELSE /\ seq'.next_index = from.next_index + a.step
                    /\ seq'.emitted_steps = from.emitted_steps + 1
      ]_vars

C5_Witness ==
    /\ SeqOk /\ ~seqOut.reset_entry /\ ~seqOut.reset_auto /\ ~seqOut.held
    /\ seq.emitted_steps = 2 /\ ~seq.strip_whitespace /\ seq.csv_column = "c"
    /\ seq.file_path = "d/b.txt"

RECURSIVE FSum(_, _, _)
\* start_value with step added n - 1 times, each sum rounded as a float
FSum(start, step, n) ==
    IF n <= 1 THEN start ELSE FAdd(FSum(start, step, n - 1), step)

\* C10 (as amended): the n-th emitting call of count since the last reset
\* returns step_index = n and the value obtained from start_value by n-1
\* successive floating-point additions of step (equal to
\* start_value + (n-1)*step whenever those additions are exact).
C10_CounterProgression ==
    (CntOk /\ ~cntOut.held) =>
        /\ cntOut.step_index = cntHist.emits
        /\ cntOut.value = FSum(cntOut.args.start_value, cntOut.args.step,
                               cntHist.emits)

\* C10 (as claimed): the n-th emitting call returns
\* value = start_value + (n-1)*step and step_index = n.
C10_Original_ClosedForm ==
    (CntOk /\ ~cntOut.held) =>
        /\ cntOut.step_index = cntHist.emits
        /\ cntOut.value = FAdd(cntOut.args.start_value,
                               FMul(cntHist.emits - 1, cntOut.args.step))

C10_Witness ==
    /\ CntOk /\ ~cntOut.held /\ cntOut.step_index = 3
    /\ cntOut.args.start_value = 8 /\ cntOut.args.step = -3
    /\ cntOut.value = 2

(***************************************************************************)
(* Properties of the Composer.                                             *)
(***************************************************************************)
\* a step of compose (a write changes the file's modification time)
CompCall == node = "WildcardPromptAssembler" /\ fs' = fs

\* the number of the first n segments selected for key k
Selected(segs, k, n) ==
    Cardinality({j \in 1..n : SegKey(segs[j]) = k})

\* the entry of key is valid for a request with these flags
CacheValid(cache, key, strip, ignore_blank) ==
    /\ key \in DOMAIN cache
    /\ cache[key].mtime = fs[key[1]].mtime
    /\ cache[key].strip = strip
    /\ cache[key].ignore_blank = ignore_blank

\* C6: the stored cursor of every SourceKey equals the number of SEQUENTIAL
\* selections made for it since the last reset (it is never wrapped), and a
\* SEQUENTIAL selection made when c selections preceded it for its key
\* picks records[c mod k] of the k records of the source.
C6_SequentialSelection ==
    /\ DOMAIN comp.positions \subseteq CompKeys
    /\ \A k \in CompKeys : DictGet(comp.positions, k, 0) = compHist.sel[k]
    /\ compOut.args.selection_mode = "SEQUENTIAL" =>
         \A i \in 1..Len(compOut.segments) :
            LET segs == compOut.segments
                seg == segs[i]
                k == SegKey(seg)
                c == compHist.sel[k]
                     - (Selected(segs, k, Len(segs)) - Selected(segs, k, i - 1))
            IN  /\ seg.total_lines = Len(seg.records)
                /\ seg.total_lines > 0
                /\ c >= 0
                /\ seg.idx = c % seg.total_lines
                /\ seg.text = seg.records[(c % seg.total_lines) + 1].text
                /\ seg.line_index
                     = seg.records[(c % seg.total_lines) + 1].line_index

\* the third call since the reset, a SEQUENTIAL call on the one source
\* d/a.txt of two records that two selections preceded, selects
\* records[2 mod 2] and leaves the cursor at 3
C6_Witness ==
    /\ compOut.status = "ok"
    /\ compOut.args.selection_mode = "SEQUENTIAL"
    /\ compOut.args.manual_paths = P_a
    /\ compHist.calls = 3
    /\ compHist.sel[<<"d/a.txt", "">>] = 3
    /\ comp.positions[<<"d/a.txt", "">>] = 3
    /\ compOut.segments[1].total_lines = 2
    /\ compOut.segments[1].idx = 0

\* C7: every record list a compose call selects from is what the reader
\* produces from the file's current content with the call's formatting
\* options; the reader is invoked exactly when the stored entry is not valid
\* for the request, and a valid entry is returned as stored and left as it is.
C7_CacheCoherency ==
    [][CompCall =>
        LET a == compOut'.args
            segs == compOut'.segments
        IN  \A i \in 1..Len(segs) :
               LET seg == segs[i]
                   key == SegKey(seg)
                   strip == a.strip_whitespace
                   ignore_blank == a.ignore_blank_lines
                   first == Selected(segs, key, i - 1) = 0
                   valid == CacheValid(comp.cache, key, strip, ignore_blank)
               IN  /\ seg.records = ReadTextFrom(fs[seg.file].content, 1,
                                                 strip, ignore_blank)
                   /\ seg.loaded <=> (first /\ ~valid)
                   /\ valid => /\ seg.records = comp.cache[key].records
                               /\ comp'.cache[key] = comp.cache[key]
                   /\ CacheValid(comp'.cache, key, strip, ignore_blank)
                   /\ comp'.cache[key].records = seg.records]_vars

\* a call after a write returned the new content, read again
C7_Witness ==
    /\ compOut.status = "ok"
    /\ clock = 1
    /\ fs["d/a.txt"].content = <<Line_b, Line_sp, Line_c>>
    /\ compHist.calls = 2
    /\ Len(compOut.segments) = 1
    /\ compOut.segments[1].file = "d/a.txt"
    /\ compOut.segments[1].loaded
    /\ compOut.segments[1].total_lines = 2
    /\ comp.cache[<<"d/a.txt", "">>].mtime = 1

\* a call that follows an identical call returned the stored list
C7_WitnessStored ==
    /\ compOut.status = "ok"
    /\ compHist.calls = 2
    /\ Len(compOut.segments) = 1
    /\ ~compOut.segments[1].loaded
    /\ compOut.segments[1].records
         = comp.cache[SegKey(compOut.segments[1])].records

\* C8: a compose call with reset = true leaves the PositionTable holding
\* only the selections of that call, selects as a first call does (cursors
\* from 0, generator seeded with random_seed itself), leaves the counter at
\* the one generator it made, and changes no cache entry that is valid.
C8_ComposerReset ==
    [][(CompCall /\ compOut'.args.reset) =>
        LET a == compOut'.args
            segs == compOut'.segments
            n == Len(segs)
            seqMode == a.selection_mode = "SEQUENTIAL"
        IN  /\ comp'.global_step = IF compOut'.rng_made THEN 1 ELSE 0
            /\ (compOut'.rng_made /\ a.random_seed >= 0)
                 => compOut'.rng_seed = a.random_seed
            /\ \A k \in CompKeys :
                 DictGet(comp'.positions, k, 0)
                   = IF seqMode THEN Selected(segs, k, n) ELSE 0
            /\ \A k \in DOMAIN comp'.positions :
                 seqMode /\ Selected(segs, k, n) > 0
            /\ \A i \in 1..n :
                 seqMode => segs[i].idx
                              = Selected(segs, SegKey(segs[i]), i - 1)
                                  % segs[i].total_lines
            /\ \A k \in DOMAIN comp.cache :
                 /\ k \in DOMAIN comp'.cache
                 /\ CacheValid(comp.cache, k, a.strip_whitespace,
                               a.ignore_blank_lines)
                      => comp'.cache[k] = comp.cache[k]
            /\ \A k \in DOMAIN comp.cache :
                 Selected(segs, k, n) = 0 /\ compOut'.status = "ok"
                   => comp'.cache[k] = comp.cache[k]]_vars

\* a reset call made when cursors, counter and cache were all set
C8_Witness ==
    /\ compOut.status = "ok"
    /\ compOut.args.reset
    /\ compOut.args.selection_mode = "SEQUENTIAL"
    /\ compHist.calls = 1
    /\ comp.global_step = 1
    /\ comp.positions = (<<"d/a.txt", "">> :> 1)
    /\ compOut.segments[1].idx = 0
    /\ ~compOut.segments[1].loaded
    /\ <<"d/b.txt", "">> \in DOMAIN comp.cache

AllSeeded(trace) == \A i \in 1..Len(trace) : trace[i].random_seed >= 0

\* C9 (as amended): two runs of the same seeded calls from creation or a
\* reset, over the same files, select the same records at every call; the
\* generator of a seeded call is seeded with random_seed + m - 1, where m
\* counts the calls since creation or the last reset that resolved a
\* non-empty source list (this call included), and a RANDOM call selects
\* the draws of that generator in order.
C9_SeededDeterminism ==
    LET cur == rngLog.last
        segs == compOut.segments
    IN  /\ (compOut.rng_made /\ compOut.args.random_seed >= 0) =>
             /\ compOut.rng_seed = compOut.args.random_seed + compHist.made - 1
             /\ compOut.args.selection_mode = "RANDOM" =>
                  \A i \in 1..Len(segs) :
                     segs[i].idx = SeededDraw(compOut.rng_seed, i - 1,
                                              segs[i].total_lines)
        /\ \A x \in rngLog.kept :
             /\ (AllSeeded(cur.trace) /\ x.trace = cur.trace) =>
                  /\ x.picks = cur.picks
                  /\ x.status = cur.status
                  /\ x.rng_seed = cur.rng_seed
             /\ (/\ x.rng_made /\ cur.rng_made
                 /\ x.random_seed >= 0
                 /\ x.random_seed = cur.random_seed
                 /\ x.made = cur.made) => x.rng_seed = cur.rng_seed

\* C9 (as claimed): the generator of a seeded call is a function only of
\* random_seed and the number of calls since creation or the last reset.
C9_Original_CallCount ==
    LET cur == rngLog.last
    IN  \A x \in rngLog.kept :
           (/\ x.rng_made /\ cur.rng_made
            /\ x.random_seed >= 0
            /\ x.random_seed = cur.random_seed
            /\ x.calls = cur.calls) => x.rng_seed = cur.rng_seed

\* the same two seeded calls were made twice, the second time after a
\* reset, and selected the same records
C9_Witness ==
    \E x \in rngLog.kept :
       /\ x.trace = rngLog.last.trace
       /\ Len(x.trace) = 2
       /\ AllSeeded(x.trace)
       /\ x.status = "ok"
       /\ x.made = 2
       /\ x.rng_seed = x.random_seed + 1
       /\ Len(x.picks) >= 1
       /\ x.picks = rngLog.last.picks

(***************************************************************************)
(* Properties of the Loader.                                               *)
(***************************************************************************)
\* a step of load_line (a write changes the file's modification time)
LoadCall == node = "PromptLineLoader" /\ fs' = fs

\* C11: for the total > 0 and the integer i of every load_line call, i <= 0
\* included, ((i-1) mod total)+1 as load_line and as _normalize_index
\* compute it lies in 1..total and is the same for i, i + total and
\* i - total.
C11_WrapCorrectness ==
    pllOut.status = "ok" =>
        LET i == pllOut.args.line_index
            total == pllOut.total_lines
        IN  /\ total > 0
            /\ pllOut.line_index = PLL_index(i, total)
            /\ pllOut.line_index \in 1..total
            /\ PLL_index(i + total, total) = pllOut.line_index
            /\ PLL_index(i - total, total) = pllOut.line_index
            /\ APL_normalize_index(i, total) \in 1..total
            /\ APL_normalize_index(i + total, total)
                 = APL_normalize_index(i, total)
            /\ APL_normalize_index(i - total, total)
                 = APL_normalize_index(i, total)

\* line_index = -4 on a file of 3 records wraps to record 2
C11_Witness ==
    /\ pllOut.status = "ok"
    /\ pllOut.args.line_index = -4
    /\ pllOut.total_lines = 3
    /\ pllOut.line_index = 2

\* C12 (as amended): on a file of total > 0 records load_line(path, i)
\* returns ((i-1) mod total)+1, total and the record at that position, with
\* its surrounding whitespace removed when strip_whitespace is true; it
\* leaves the instance as it was, and its result for given arguments and
\* file content does not depend on the calls made before it.
C12_Stateless ==
    /\ [][LoadCall =>
           /\ pll' = pll
           /\ pllOut'.status = "ok" =>
                LET a == pllOut'.args
                    records == fs[a.file_path].content
                    total == Len(records)
                    k == (a.line_index - 1) % total
                IN  /\ total > 0
                    /\ pllOut'.lines = records
                    /\ pllOut'.total_lines = total
                    /\ pllOut'.line_index = k + 1
                    /\ pllOut'.prompt = IF a.strip_whitespace
                                        THEN str_strip(records[k + 1])
                                        ELSE records[k + 1]]_vars
    /\ [](\A x \in pllKept :
             (x.args = pllOut.args /\ x.lines = pllOut.lines) => x = pllOut)

\* C12 (as claimed): load_line(path, i) returns (records[(i-1) mod total],
\* ((i-1) mod total)+1, total).
C12_Original_StoredRecord ==
    pllOut.status = "ok" =>
        LET k == (pllOut.args.line_index - 1) % Len(pllOut.lines)
        IN  /\ pllOut.total_lines = Len(pllOut.lines)
            /\ pllOut.line_index = k + 1
            /\ pllOut.prompt = pllOut.lines[k + 1]

\* line_index = 4 on the file of 3 records returned the first record with
\* index 1 and total 3, as the same call did earlier, a write to another
\* file in between
C12_Witness ==
    /\ pllOut.status = "ok"
    /\ pllOut.args.file_path = "d/b.txt"
    /\ pllOut.args.line_index = 4
    /\ pllOut.total_lines = 3
    /\ pllOut.line_index = 1
    /\ pllOut.prompt = Line_b
    /\ clock = 1
    /\ \E x \in pllKept : x = pllOut /\ pllKept = {x}

\* ---------------------------------------------------------------------
\* Properties of the Sequencer and the Counter, continued

\* the fingerprint stored by the sequencer is the one the call made in this
\* step presents
SeqSameFingerprint ==
    /\ seq.initialized
    /\ <<seq.file_path, seq.file_mtime, seq.start_value, seq.step,
         seq.max_steps, seq.auto_reset, seq.csv_column, seq.strip_whitespace>>
       = <<seqOut'.args.file_path, fs[seqOut'.args.file_path].mtime,
           seqOut'.args.start_value, seqOut'.args.step,
           seqOut'.args.max_steps, seqOut'.args.auto_reset,
           seqOut'.args.csv_column, seqOut'.args.strip_whitespace>>

\* C13: when max_steps >= 0 and emitted_steps = max_steps, a call with
\* auto_reset false, reset false and an unchanged fingerprint emits no
\* record (it is held, done) and leaves next_index and emitted_steps as they
\* were; a capped sequencer emits a further record only in a call that
\* resets: explicit reset, changed fingerprint, or auto_reset.
C13_EmissionCap ==
    [][SeqCallReturns =>
        LET a == seqOut'.args
            capped == /\ seq.initialized /\ seq.max_steps >= 0
                      /\ seq.emitted_steps = seq.max_steps
        IN  /\ (capped /\ SeqSameFingerprint /\ ~a.auto_reset /\ ~a.reset) =>
                   /\ seqOut'.held /\ seqOut'.done
                   /\ seq'.next_index = seq.next_index
                   /\ seq'.emitted_steps = seq.emitted_steps
                   /\ seqHist' = seqHist
            /\ (capped /\ ~seqOut'.held) =>
                   /\ a.reset \/ ~SeqSameFingerprint \/ a.auto_reset
                   /\ seqOut'.reset_entry \/ seqOut'.reset_auto
                   /\ seqOut'.step_index = 1
      ]_vars

C13_Witness ==
    /\ SeqOk /\ seqOut.held /\ ~seqOut.reset_entry
    /\ seq.max_steps = 2 /\ seq.emitted_steps = 2 /\ seq.step = -2
    /\ seq.next_index = seq.start_value - 4
    /\ seqHist.emits = 2

\* the call of the counter made in this step (count never raises)
CntCallReturns ==
    /\ node = "SimpleNumberCounter"
    /\ cntOut' # cntOut \/ cnt' # cnt \/ cntHist' # cntHist

\* the counter's call of this step presents the configuration it has stored
CntSameFingerprint ==
    /\ cnt.initialized
    /\ <<cnt.start_value, cnt.step, cnt.max_steps, cnt.auto_reset>>
       = <<cntOut'.args.start_value, cntOut'.args.step,
           cntOut'.args.max_steps, cntOut'.args.auto_reset>>

\* C14: between two resets emitted_steps never decreases. A call that does
\* not reset leaves it unchanged (held) or adds one (emission); a call that
\* resets (reset input, first call, changed fingerprint, or exhaustion with
\* auto_reset) restarts it at 0 before it emits or holds; a call that raises
\* leaves it alone. For the Sequencer and the Counter.
C14_EmittedStepsMonotone ==
    [][/\ (node = "AutoPromptLineLoader" /\ fs' = fs) =>
            LET a == seqOut'.args
                resets ==
                    \/ a.reset \/ ~SeqSameFingerprint
                    \/ /\ a.auto_reset /\ a.max_steps >= 0
                       /\ seq.emitted_steps >= a.max_steps
            IN  IF seqOut'.status # "ok"
                THEN seq'.emitted_steps = seq.emitted_steps
                ELSE IF resets
                THEN seq'.emitted_steps = (IF seqOut'.held THEN 0 ELSE 1)
                ELSE /\ seq'.emitted_steps
                            = seq.emitted_steps + (IF seqOut'.held THEN 0 ELSE 1)
                     /\ seq'.emitted_steps >= seq.emitted_steps
       /\ CntCallReturns =>
            LET a == cntOut'.args
                resets ==
                    \/ a.reset \/ ~CntSameFingerprint
                    \/ /\ a.auto_reset /\ a.max_steps >= 0
                       /\ cnt.emitted_steps >= a.max_steps
            IN  IF resets
                THEN cnt'.emitted_steps = (IF cntOut'.held THEN 0 ELSE 1)
                ELSE /\ cnt'.emitted_steps
                            = cnt.emitted_steps + (IF cntOut'.held THEN 0 ELSE 1)
                     /\ cnt'.emitted_steps >= cnt.emitted_steps
      ]_vars

C14_Witness ==
    /\ node = "SimpleNumberCounter"
    /\ cnt.emitted_steps = 3 /\ cnt.max_steps = -1
    /\ ~cntOut.reset_entry /\ ~cntOut.held /\ cntOut.step_index = 3

\* C16: every successful return of next_prompt carries
\* 1 <= line_index <= total_lines and step_index >= 1, for every
\* max_steps >= -1, on emitting and on held calls.
C16_ReturnBounds ==
    SeqOk =>
        /\ seqOut.line_index \in 1..seqOut.total_lines
        /\ seqOut.step_index >= 1

(***************************************************************************)
(* Properties of the Composer, continued.                                  *)
(***************************************************************************)
\* the record is line line_index of content, formatted, and stands at place
\* j of a list read with these flags
RecordOfLine(record, j, content, strip, ignore_blank) ==
    /\ record.line_index \in 1..Len(content)
    /\ record.text = (IF strip THEN str_strip(content[record.line_index])
                      ELSE content[record.line_index])
    /\ record.line_index >= j
    /\ ~ignore_blank => record.line_index = j

\* C15 as amended: for every record of a valid CacheTable entry and every
\* segment a compose call reports, line_index is the 1-based number of the
\* record's line in the file as read, before blank lines are left out:
\* 1 <= line_index <= the number of lines of the file, line_index is at
\* least the record's place in its list, and equal to it (so at most
\* total_lines) when ignore_blank_lines is false; total_lines is the length
\* of the list.
C15_LineIndexOfFile ==
    [][CompCall =>
        /\ \A key \in DOMAIN comp'.cache :
              LET entry == comp'.cache[key]
              IN  entry.mtime = fs[key[1]].mtime =>
                     \A j \in 1..Len(entry.records) :
                        RecordOfLine(entry.records[j], j, fs[key[1]].content,
                                     entry.strip, entry.ignore_blank)
        /\ \A i \in 1..Len(compOut'.segments) :
              LET seg == compOut'.segments[i]
              IN  /\ seg.total_lines = Len(seg.records)
                  /\ seg.idx + 1 \in 1..seg.total_lines
                  /\ seg.line_index = seg.records[seg.idx + 1].line_index
                  /\ RecordOfLine(seg.records[seg.idx + 1], seg.idx + 1,
                                  fs[seg.file].content,
                                  compOut'.args.strip_whitespace,
                                  compOut'.args.ignore_blank_lines)
      ]_vars

\* C15 as stated: line_index is between 1 and the length of the record list
C15_Original_IndexBound ==
    /\ \A key \in DOMAIN comp.cache :
          \A j \in 1..Len(comp.cache[key].records) :
             comp.cache[key].records[j].line_index
                 \in 1..Len(comp.cache[key].records)
    /\ \A i \in 1..Len(compOut.segments) :
          compOut.segments[i].line_index \in 1..compOut.segments[i].total_lines

\* the blank second line of d/b.txt is left out: the second of the two
\* records is line 3 of the file
C15_Witness ==
    /\ compOut.status = "ok"
    /\ compOut.args.ignore_blank_lines /\ compOut.args.strip_whitespace
    /\ Len(compOut.segments) = 2
    /\ compOut.segments[2].file = "d/b.txt"
    /\ compOut.segments[2].total_lines = 2
    /\ compOut.segments[2].idx = 1
    /\ compOut.segments[2].line_index = 3
    /\ comp.cache[<<"d/b.txt", "">>].records[2].line_index = 3

\* C17: a compose call whose selection_mode is neither SEQUENTIAL nor
\* RANDOM fails, as a call with an unknown mode does, and returns no output.
C17_UnknownSelectionModeFails ==
    /\ compOut.args.mode \notin {"MANUAL", "CONFIG_FILE", "DIRECTORY"}
           => compOut.status # "ok"
    /\ compOut.args.selection_mode \notin {"SEQUENTIAL", "RANDOM"}
           => compOut.status # "ok"

\* the stored entry of key was made with other formatting flags than these
FlagsChanged(cache, key, strip, ignore_blank) ==
    /\ key \in DOMAIN cache
    /\ cache[key].strip # strip \/ cache[key].ignore_blank # ignore_blank

\* C18: the cursors are keyed by (path, column) only. A SEQUENTIAL compose
\* call without reset whose strip_whitespace or ignore_blank_lines differ
\* from the flags the source's cache entry was made with finds the cursor of
\* the source as the earlier calls left it: the selection is made at the
\* stored cursor and the cursor goes on to cursor + 1, while the cache entry
\* is read again with the new flags.
C18_CursorKeptAcrossFlags ==
    [][(/\ CompCall
        /\ compOut'.status = "ok"
        /\ compOut'.args.selection_mode = "SEQUENTIAL"
        /\ ~compOut'.args.reset) =>
        LET a == compOut'.args
            segs == compOut'.segments
        IN  /\ \A k \in CompKeys :
                  DictGet(comp'.positions, k, 0)
                     = DictGet(comp.positions, k, 0) + Selected(segs, k, Len(segs))
            /\ \A i \in 1..Len(segs) :
                  LET k == SegKey(segs[i])
                  IN  (/\ FlagsChanged(comp.cache, k, a.strip_whitespace,
                                       a.ignore_blank_lines)
                       /\ Selected(segs, k, i - 1) = 0) =>
                         /\ segs[i].idx
                              = DictGet(comp.positions, k, 0) % segs[i].total_lines
                         /\ segs[i].loaded
                         /\ comp'.cache[k].strip = a.strip_whitespace
                         /\ comp'.cache[k].ignore_blank = a.ignore_blank_lines
                         /\ comp'.cache[k].records
                              = ReadTextFrom(fs[k[1]].content, 1,
                                             a.strip_whitespace,
                                             a.ignore_blank_lines)
      ]_vars

\* the second call on d/a.txt, with both flags off after a call with both
\* on and no write in between: the file is read again and its second
\* record, unstripped, is selected
C18_Witness ==
    /\ compOut.status = "ok" /\ clock = 0
    /\ compOut.args.selection_mode = "SEQUENTIAL"
    /\ ~compOut.args.strip_whitespace /\ ~compOut.args.ignore_blank_lines
    /\ compHist.calls = 2
    /\ comp.positions = (<<"d/a.txt", "">> :> 2)
    /\ compOut.segments[1].loaded
    /\ compOut.segments[1].idx = 1
    /\ ~comp.cache[<<"d/a.txt", "">>].strip

\* C19 as amended: the CacheTable holds one entry for each (path, column),
\* which remembers the flags and the modification time it was made with. A
\* request is a cache hit, answered with the stored list without reading
\* the file, exactly when the most recent request made for its path and
\* column had the same strip and ignore_blank flags and the file's
\* modification time has not changed since; a request with other flags
\* replaces the entry, so a request whose flags were loaded before that one
\* is loaded again.
C19_OneEntryPerSource ==
    [][CompCall =>
        LET a == compOut'.args
            segs == compOut'.segments
        IN  /\ DOMAIN comp'.cache \subseteq CompKeys
            /\ \A i \in 1..Len(segs) :
                  LET k == SegKey(segs[i])
                      first == Selected(segs, k, i - 1) = 0
                      req == SegRequest(segs[i], a)
                  IN  /\ segs[i].loaded <=> (first /\ compHist.recent[k] # req)
                      /\ (first /\ ~segs[i].loaded) =>
                            /\ segs[i].records = comp.cache[k].records
                            /\ comp'.cache[k] = comp.cache[k]
                      /\ compHist'.recent[k] = req
                      /\ <<comp'.cache[k].strip, comp'.cache[k].ignore_blank,
                           comp'.cache[k].mtime>> = req
      ]_vars

\* C19 as stated: a request whose four-part key was answered earlier, the
\* file not modified since, is answered with the stored list without
\* reading the file, whatever was requested in between
C19_Original_EntryPerFlags ==
    [][CompCall =>
        \A i \in 1..Len(compOut'.segments) :
           <<SegKey(compOut'.segments[i]),
             SegRequest(compOut'.segments[i], compOut'.args)>> \in compHist.kept
               => ~compOut'.segments[i].loaded
      ]_vars

\* d/a.txt was requested with both flags on, then with other flags, and now
\* with both flags on again, the file never written: it is read again
C19_Witness ==
    /\ compOut.status = "ok" /\ clock = 0
    /\ compOut.args.strip_whitespace /\ compOut.args.ignore_blank_lines
    /\ <<<<"d/a.txt", "">>, <<TRUE, TRUE, fs["d/a.txt"].mtime>>>> \in compHist.kept
    /\ Len(compOut.segments) = 1
    /\ compOut.segments[1].file = "d/a.txt"
    /\ compOut.segments[1].loaded
    /\ compHist.recent[<<"d/a.txt", "">>] = <<TRUE, TRUE, fs["d/a.txt"].mtime>>

(***************************************************************************)
(* The Sequencer and the Counter side by side.                             *)
(***************************************************************************)
\* C20: driven side by side by the same (max_steps, auto_reset, reset)
\* inputs, with the same pattern of configuration changes and an unchanged
\* non-empty file, next_prompt and count both return, with the same
\* step_index and the same done flag at every call, held exhausted calls
\* and max_steps = 0 included; they hold, emit and reset at the same calls
\* and keep the same emitted_steps.
C20_SameStateMachine ==
    (node = "AutoPromptLineLoader+SimpleNumberCounter" /\ cntOut.status = "ok") =>
        /\ seqOut.status = "ok"
        /\ seqOut.step_index = cntOut.step_index
        /\ seqOut.done = cntOut.done
        /\ seqOut.held = cntOut.held
        /\ seqOut.reset_entry = cntOut.reset_entry
        /\ seqOut.reset_auto = cntOut.reset_auto
        /\ seq.emitted_steps = cnt.emitted_steps

\* both held after two emissions
C20_Witness ==
    /\ node = "AutoPromptLineLoader+SimpleNumberCounter"
    /\ seqOut.status = "ok" /\ cntOut.status = "ok"
    /\ seqOut.held /\ cntOut.held /\ ~seqOut.reset_entry
    /\ seqOut.step_index = 2 /\ cntOut.step_index = 2
    /\ seqOut.done /\ cntOut.done
    /\ seq.file_path = "d/b.txt" /\ cnt.start_value = 8 /\ cnt.step = -3

\* both held at once with max_steps = 0, nothing emitted
C20_WitnessZero ==
    /\ node = "AutoPromptLineLoader+SimpleNumberCounter"
    /\ seqOut.status = "ok" /\ cntOut.status = "ok"
    /\ seq.max_steps = 0 /\ cnt.max_steps = 0
    /\ seqOut.held /\ cntOut.held
    /\ seqOut.step_index = 0 /\ cntOut.step_index = 0
    /\ seqOut.done /\ cntOut.done

(***************************************************************************)
(* Properties of the Sequencer and the Counter: the loaded lines and the   *)
(* cap.                                                                    *)
(***************************************************************************)
\* C23: in every Sequencer state with initialized = true,
\* total_lines = len(lines) > 0; a next_prompt call that fails, the one on
\* a file that yields zero records included, leaves the state as it was,
\* initialized or not; a call that returns was made on a file that has
\* records; and the wrap formula is never reached with total = 0.
C23_LinesNeverEmpty ==
    /\ [](seq.initialized => (seq.total_lines = Len(seq.lines) /\ seq.total_lines > 0))
    /\ [](seqOut.error # "NoLines")
    /\ [][(node = "AutoPromptLineLoader" /\ fs' = fs /\ seqOut'.status = "error")
             => seq' = seq]_vars
    /\ [][SeqCallReturns =>
             /\ fs[seqOut'.args.file_path].content # <<>>
             /\ seqOut'.total_lines = Len(fs[seqOut'.args.file_path].content)]_vars

\* the file was emptied after two emissions: the call failed and the state
\* is the one the emissions left
C23_Witness ==
    /\ seqOut.status = "error" /\ seqOut.error = "ZeroLines"
    /\ fs["d/a.txt"].content = <<>>
    /\ seq.initialized /\ seq.emitted_steps = 2 /\ seq.total_lines = 2
    /\ seq.file_mtime = 0

\* C24: in every state of the Sequencer and of the Counter reached by calls
\* that pass max_steps >= 0 (the state holds the max_steps of the last
\* call, and a call with another max_steps resets), emitted_steps <=
\* max_steps, for every value of auto_reset and reset.
C24_EmittedWithinCap ==
    /\ (seq.initialized /\ seq.max_steps >= 0)
           => seq.emitted_steps <= seq.max_steps
    /\ (cnt.initialized /\ cnt.max_steps >= 0)
           => cnt.emitted_steps <= cnt.max_steps

(***************************************************************************)
(* Properties of the Composer: the sources and the assembled prompt.      *)
(***************************************************************************)
RECURSIVE Resolved(_, _)
\* the first n entries of lines: each line with its surrounding whitespace
\* removed, those that are then empty or start with '#' left out
Resolved(lines, n) ==
    IF lines = <<>> \/ n <= 0
    THEN <<>>
    ELSE IF str_strip(Head(lines)) = <<>> \/ Head(str_strip(Head(lines))) = "#"
    THEN Resolved(Tail(lines), n)
    ELSE <<str_strip(Head(lines))>> \o Resolved(Tail(lines), n - 1)

RECURSIVE ResolvedAsWritten(_, _)
\* the first n of the lines that are not blank and do not start with '#',
\* as they are written
ResolvedAsWritten(lines, n) ==
    IF lines = <<>> \/ n <= 0
    THEN <<>>
    ELSE IF str_strip(Head(lines)) = <<>> \/ Head(Head(lines)) = "#"
    THEN ResolvedAsWritten(Tail(lines), n)
    ELSE <<Head(lines)>> \o ResolvedAsWritten(Tail(lines), n - 1)

\* the sources of a MANUAL call are the entries of list: the segments
\* reported are selections from them, in order, as far as the call got, and
\* all of them when it succeeded
SourcesAre(out, list) ==
    /\ Len(out.segments) <= Len(list)
    /\ \A i \in 1..Len(out.segments) :
          /\ out.segments[i].file
               = WPA_split_path_and_column(list[i], out.args.csv_column).path
          /\ out.segments[i].column
               = WPA_split_path_and_column(list[i], out.args.csv_column).column
    /\ out.status = "ok" =>
          /\ out.file_count = Len(list)
          /\ Len(out.segments) = Len(list)
          /\ out.file_count \in 1..out.args.max_files
    /\ list = <<>> <=> (out.status = "error" /\ out.error = "NoSources")

\* C21 as amended: in inline-list mode the resolved list is the first
\* max_files entries, in original order, of the input lines with their
\* surrounding whitespace removed, leaving out those that are then empty or
\* start with '#'; file_count is the length of the resolved list and the
\* number of segments, so 1 <= file_count <= max_files on success, and
\* compose fails with NoSourcesError exactly when the resolved list is empty.
C21_ResolvedList ==
    (compOut.status # "none" /\ compOut.args.mode = "MANUAL") =>
        SourcesAre(compOut, Resolved(compOut.args.manual_paths,
                                     compOut.args.max_files))

\* C21 as stated: the resolved list is made of the input lines that are
\* neither blank nor start with '#'
C21_Original_LinesAsWritten ==
    (compOut.status = "ok" /\ compOut.args.mode = "MANUAL") =>
        compOut.file_count
           = Len(ResolvedAsWritten(compOut.args.manual_paths,
                                   compOut.args.max_files))

\* four lines, one a comment, cut at max_files = 2
C21_Witness ==
    /\ compOut.status = "ok"
    /\ compOut.args.manual_paths = P_aba /\ compOut.args.max_files = 2
    /\ compOut.file_count = 2
    /\ compOut.segments[1].file = "d/a.txt"
    /\ compOut.segments[2].file = "d/b.txt"

\* insert[i] of a call, counted from 1: the empty text where there is none
InsertAt(a, i) ==
    IF i <= Len(a.custom_inserts) THEN a.custom_inserts[i] ELSE <<>>

\* the parts of the prompt in the order of the claim: prefix, insert and
\* selected text for each source, the insert past the last source, suffix
PartsInOrder(a, segs) ==
    [j \in 1..(2 * Len(segs) + 3) |->
        IF j = 1 THEN a.prefix_text
        ELSE IF j = 2 * Len(segs) + 2 THEN InsertAt(a, Len(segs) + 1)
        ELSE IF j = 2 * Len(segs) + 3 THEN a.suffix_text
        ELSE IF j % 2 = 0 THEN InsertAt(a, j \div 2)
        ELSE segs[(j - 1) \div 2].text]

RECURSIVE Joined(_, _, _)
\* the parts from the j-th on, the empty ones left out, sep before each part
\* that is not the first one put down
Joined(parts, j, started) ==
    IF j > Len(parts)
    THEN <<>>
    ELSE IF parts[j] = <<>>
    THEN Joined(parts, j + 1, started)
    ELSE (IF started[1] THEN started[2] ELSE <<>>) \o parts[j]
             \o Joined(parts, j + 1, <<TRUE, started[2]>>)

\* C22: the prompt of a successful compose call is prefix, then for each
\* source in list order its insert followed by the text selected for it,
\* then the insert past the last source, then suffix, every empty part left
\* out, the parts joined by exactly one space when auto_space is true and
\* by nothing otherwise.
C22_AssemblyOrder ==
    compOut.status = "ok" =>
        compOut.prompt
           = Joined(PartsInOrder(compOut.args, compOut.segments), 1,
                    <<FALSE, IF compOut.args.auto_space THEN <<" ">> ELSE <<>>>>)

\* prefix, insert, two selected texts (the insert of the second source is
\* empty), the insert past the last source and the suffix, with spaces
C22_Witness ==
    /\ compOut.status = "ok"
    /\ compOut.args.auto_space
    /\ compOut.args.custom_inserts = << <<"x">>, <<>>, <<"z">> >>
    /\ compOut.prompt
         = <<"p", " ", "x", " ", "a", " ", "b", " ", "z", " ", "s">>

\* a selected text that is empty is left out, and so is its space
C22_WitnessEmptyText ==
    /\ compOut.status = "ok"
    /\ compOut.args.manual_paths = P_b
    /\ compOut.segments[1].text = <<>>
    /\ compOut.prompt = <<"p", " ", "s">>

\* C25 as amended: a compose call that fails returns no prompt. When it
\* fails before its sources are visited (no sources, or the list cannot be
\* resolved) it leaves the PositionTable and the call-sequence counter as
\* they were, or cleared when reset is true. When it fails at a source
\* (missing file, unsupported extension, no usable records) the counter has
\* already been advanced by one and the cursors of the sources selected
\* before the failing one have been advanced; they are not restored.
C25_FailureKeepsProgress ==
    [][(CompCall /\ compOut'.status = "error") =>
        LET a == compOut'.args
            segs == compOut'.segments
            step0 == IF a.reset THEN 0 ELSE comp.global_step
            cursor0(k) == IF a.reset THEN 0 ELSE DictGet(comp.positions, k, 0)
            advance(k) == IF a.selection_mode = "SEQUENTIAL"
                          THEN Selected(segs, k, Len(segs))
                          ELSE 0
        IN  /\ compOut'.prompt = <<>>
            /\ compOut'.file_count = 0
            /\ comp'.global_step = step0 + (IF compOut'.rng_made THEN 1 ELSE 0)
            /\ ~compOut'.rng_made => segs = <<>>
            /\ \A k \in CompKeys :
                  DictGet(comp'.positions, k, 0) = cursor0(k) + advance(k)
      ]_vars

\* C25 as stated: a failing compose call leaves the PositionTable and the
\* call-sequence counter exactly as they were
C25_Original_FailureIsAtomic ==
    [][(CompCall /\ compOut'.status = "error") =>
        /\ comp'.positions = comp.positions
        /\ comp'.global_step = comp.global_step
      ]_vars

\* the second source of the list is missing: two calls have failed there,
\* and each has advanced the cursor of the first source and the counter
C25_Witness ==
    /\ compOut.status = "error" /\ compOut.error = "FileNotFound"
    /\ compOut.args.selection_mode = "SEQUENTIAL" /\ ~compOut.args.reset
    /\ Len(compOut.segments) = 1
    /\ compHist.calls = 2
    /\ comp.positions = (<<"d/a.txt", "">> :> 2)
    /\ comp.global_step = 2

\* the SourceKey of an entry of a resolved list
EntryKey(entry, a) ==
    <<WPA_split_path_and_column(entry, a.csv_column).path,
      WPA_split_path_and_column(entry, a.csv_column).column>>

\* the number of times key k occurs in the resolved list of a MANUAL call
Occurs(k, a) ==
    Cardinality({i \in 1..Len(Resolved(a.manual_paths, a.max_files)) :
                    EntryKey(Resolved(a.manual_paths, a.max_files)[i], a) = k})

\* C26 as amended: a successful SEQUENTIAL compose call with reset false
\* increases the cursor of each SourceKey of its resolved list by exactly
\* the number of times the key occurs in the list and leaves the cursor of
\* every other SourceKey unchanged, creating no entry for it; a successful
\* call that is not SEQUENTIAL, reset false, leaves the whole PositionTable
\* unchanged. With reset true the table is cleared first: afterwards it
\* holds the occurrences of the keys of the list (SEQUENTIAL) or nothing.
C26_CursorsPerSource ==
    [][(/\ CompCall
        /\ compOut'.status = "ok"
        /\ compOut'.args.mode = "MANUAL") =>
        LET a == compOut'.args
            sequential == a.selection_mode = "SEQUENTIAL"
            before == IF a.reset THEN EmptyMap ELSE comp.positions
            listed == {k \in CompKeys : Occurs(k, a) > 0}
        IN  /\ \A k \in CompKeys :
                  DictGet(comp'.positions, k, 0)
                     = DictGet(before, k, 0)
                         + (IF sequential THEN Occurs(k, a) ELSE 0)
            /\ DOMAIN comp'.positions
                  = DOMAIN before \cup (IF sequential THEN listed ELSE {})
            /\ (~sequential /\ ~a.reset) => comp'.positions = comp.positions
      ]_vars

\* C26 as stated: whatever reset is, the cursors of the listed keys grow by
\* their occurrences and the others stay; a RANDOM call changes nothing
C26_Original_AnyReset ==
    [][(/\ CompCall
        /\ compOut'.status = "ok"
        /\ compOut'.args.mode = "MANUAL") =>
        IF compOut'.args.selection_mode = "SEQUENTIAL"
        THEN \A k \in CompKeys :
                DictGet(comp'.positions, k, 0)
                   = DictGet(comp.positions, k, 0) + Occurs(k, compOut'.args)
        ELSE compOut'.args.selection_mode = "RANDOM"
                => comp'.positions = comp.positions
      ]_vars

\* d/a.txt is listed twice and d/b.txt once, after a call that had selected
\* from d/b.txt and from d/a.txt with column c: two cursors have grown by 2
\* and 1, the third is as it was
C26_Witness ==
    /\ compOut.status = "ok"
    /\ compOut.args.manual_paths = P_aba /\ compOut.args.max_files = 16
    /\ compOut.args.selection_mode = "SEQUENTIAL" /\ ~compOut.args.reset
    /\ compHist.calls = 2
    /\ comp.positions
         = (<<"d/a.txt", "">> :> 2) @@ (<<"d/b.txt", "">> :> 2)
              @@ (<<"d/a.txt", "c">> :> 1)

====
